---- MODULE Spec2Model ----
(***************************************************************************)
(* Model of sshfs-rs: the server-side SFTP session layer (virtual root,    *)
(* handle tables, readdir cursor, audit emission) and the client-side FUSE *)
(* adapter (inode table, file handle table, reply discipline), and the     *)
(* password authentication of the server (auth.rs over the Users table).   *)
(*                                                                         *)
(* Strings are sequences of one-character strings, so that path parsing    *)
(* (std::path::Path) is computed the way the standard library computes it. *)
(***************************************************************************)
EXTENDS Integers, Sequences, FiniteSets, TLC

VARIABLES
    last,       \* the last operation performed, its arguments and its result
    inodes,     \* client Inodes: [list : inode -> path, max_inode : u64]
    file_handles, \* client FHandlers: [list : fh -> File, next_fh : u64]
    call,       \* the client callback in progress and its locals
    hostfs,     \* the file system of the host the server runs on: [names, nodes]
    sess,       \* the server's SFTP sessions: session id -> SftpSession
    auth,       \* the server's Users table and the connection's User (auther)
    audit_db    \* the server's AuditLogs table and its connection's settings

vars == <<last, inodes, file_handles, call, hostfs, sess, auth, audit_db>>
clientVars == <<inodes, file_handles, call>>

\* ------------------------------------------------------------------------
\* Bounds
\* ------------------------------------------------------------------------
MaxPathLen == 4     \* longest enumerated path string
MaxInode == 3       \* cap on Inodes::max_inode
MaxNewNodes == 1    \* files and directories the host may create
MaxFileLen == 2     \* longest file content on the host
MaxFh == 2          \* cap on FHandlers::next_fh
MaxEntries == 2     \* most entries a ReplyDirectory buffer accepts
MaxCode == 60       \* largest magnitude of an enumerated ssh2 error code
MaxRows == 2

\* ------------------------------------------------------------------------
\* std::path::Path, as used by the program
\* ------------------------------------------------------------------------
Sep == "/"
Dot == <<".">>
DotDot == <<".", ".">>
RootDir == <<"/">>

None == [some |-> FALSE]
Some(v) == [some |-> TRUE, val |-> v]
Ok(v) == [ok |-> TRUE, val |-> v]
Err(e) == [ok |-> FALSE, err |-> e]

RECURSIVE Split(_)
\* the pieces of s between separators, empty pieces included
Split(s) ==
    IF s = <<>> THEN << <<>> >>
    ELSE LET rest == Split(Tail(s)) IN
         IF Head(s) = Sep THEN << <<>> >> \o rest
         ELSE << <<Head(s)>> \o Head(rest) >> \o Tail(rest)

RECURSIVE Join(_)
Join(ps) ==
    IF Len(ps) = 0 THEN <<>>
    ELSE IF Len(ps) = 1 THEN ps[1]
    ELSE ps[1] \o <<Sep>> \o Join(Tail(ps))

has_root(s) == s # <<>> /\ s[1] = Sep

\* is piece i of ps yielded by Path::components()?  Empty pieces (repeated
\* or trailing separators) and "." are skipped, except a leading "." of a
\* relative path; the piece before a leading separator is the RootDir.
IsComp(ps, i, rooted) ==
    IF i = 1 /\ rooted THEN TRUE
    ELSE ps[i] # <<>> /\ (ps[i] # Dot \/ (i = 1 /\ ~rooted))

RECURSIVE CompIdxFrom(_, _, _)
CompIdxFrom(ps, i, rooted) ==
    IF i > Len(ps) THEN <<>>
    ELSE (IF IsComp(ps, i, rooted) THEN <<i>> ELSE <<>>)
         \o CompIdxFrom(ps, i + 1, rooted)

\* indices of the pieces that are components
CompIdx(s) == CompIdxFrom(Split(s), 1, has_root(s))

\* Path::components(): RootDir, CurDir, ParentDir and Normal components
Components(s) ==
    LET ps == Split(s)
        ix == CompIdx(s)
    IN [k \in 1..Len(ix) |->
            IF ix[k] = 1 /\ has_root(s) THEN RootDir ELSE ps[ix[k]]]

\* PartialEq for Path / PathBuf compares components
PathEq(a, b) == Components(a) = Components(b)

IsPrefix(p, q) == Len(p) <= Len(q) /\ SubSeq(q, 1, Len(p)) = p

\* Path::starts_with
starts_with(p, base) == IsPrefix(Components(base), Components(p))

Skippable(piece) == piece = <<>> \/ piece = Dot

RECURSIVE TrimLeft(_)
TrimLeft(ps) ==
    IF ps # <<>> /\ Skippable(Head(ps)) THEN TrimLeft(Tail(ps)) ELSE ps

RECURSIVE TrimRight(_)
TrimRight(ps) ==
    IF ps # <<>> /\ Skippable(ps[Len(ps)])
    THEN TrimRight(SubSeq(ps, 1, Len(ps) - 1)) ELSE ps

\* the result of strip_prefix once the match is known: ps are the pieces of
\* p, n the number of components of base, front the last piece of the
\* prefix and trimmed the pieces after it
strip_rest(p, ps, n, front, trimmed) ==
    IF n > 0 THEN Ok(Join(trimmed))
    ELSE IF trimmed = <<>>
         THEN Ok(IF has_root(p) THEN <<Sep>> ELSE Join(SubSeq(ps, 1, front)))
         ELSE Ok(Join(SubSeq(ps, 1, front) \o trimmed))

\* Components::as_path trims separators and "." at both ends of the body
strip_from(p, ps, n, front) ==
    strip_rest(p, ps, n, front,
               IF n > 0 THEN TrimRight(TrimLeft(SubSeq(ps, front + 1, Len(ps))))
               ELSE TrimRight(SubSeq(ps, front + 1, Len(ps))))

strip_after(p, ps, ix, n) ==
    strip_from(p, ps, n,
               IF n > 0 THEN ix[n] ELSE IF has_root(p) \/ ps[1] = Dot THEN 1 ELSE 0)

\* Path::strip_prefix: the slice of p after the components of base
strip_prefix(p, base) ==
    IF ~starts_with(p, base) THEN Err("StripPrefixError")
    ELSE strip_after(p, Split(p), CompIdx(p), Len(Components(base)))

\* Path::join / PathBuf::push
join(base, p) ==
    IF has_root(p) THEN p
    ELSE IF base # <<>> /\ base[Len(base)] # Sep THEN base \o <<Sep>> \o p
    ELSE base \o p

\* ------------------------------------------------------------------------
\* server/src/fs.rs: VirtualRoot
\* ------------------------------------------------------------------------
\* the configured root (the spec's example root /srv/share)
virtual_root == <<"/", "s", "r", "v", "/", "s", "h", "a", "r", "e">>

\* the escape check of to_real_path on the joined path
checked_real_path(real_path) ==
    IF ~starts_with(real_path, virtual_root)
    THEN Err("Path is outside the virtual root.")
    ELSE Ok(real_path)

\* to_real_path once delta = strip_prefix("/") is known
real_path_of(delta) ==
    IF ~delta.ok THEN Err("Path does not start with a slash.")
    ELSE checked_real_path(join(virtual_root, delta.val))

\* mutant of to_real_path: joins without either check
to_real_path_unchecked(virtual_path) == Ok(join(virtual_root, virtual_path))

to_real_path(virtual_path) == real_path_of(strip_prefix(virtual_path, <<Sep>>))

\* to_virtual_path once relative_path = strip_prefix(root) is known
virtual_path_of(relative_path) ==
    IF ~relative_path.ok THEN Err("StripPrefixError")
    ELSE Ok(join(<<Sep>>, relative_path.val))

\* mutant of to_virtual_path: the relative path is not joined to "/"
to_virtual_path_unrooted(real_path) == strip_prefix(real_path, virtual_root)

to_virtual_path(real_path) == virtual_path_of(strip_prefix(real_path, virtual_root))

\* ------------------------------------------------------------------------
\* client/src/filesystem.rs: Inodes
\* ------------------------------------------------------------------------
\* Inodes::default()
InodesDefault == [list |-> <<>>, max_inode |-> 0]

\* Inodes::get_inode searches the HashMap in iteration order, which is
\* arbitrary: every key bound to an equal path is a possible result.  The
\* value is the set of results the call can produce.
\* mutant of get_inode: matches by prefix instead of by equality
get_inode_prefix(ins, path) ==
    LET hits == {i \in DOMAIN ins.list : starts_with(ins.list[i], path)} IN
    IF hits = {} THEN {None} ELSE {Some(i) : i \in hits}

get_inode(ins, path) ==
    LET hits == {i \in DOMAIN ins.list : PathEq(path, ins.list[i])} IN
    IF hits = {} THEN {None} ELSE {Some(i) : i \in hits}

\* Inodes::get_path
get_path(ins, inode) ==
    IF inode \in DOMAIN ins.list THEN Some(ins.list[inode]) ELSE None

MapInsert(m, k, v) == [x \in DOMAIN m \cup {k} |-> IF x = k THEN v ELSE m[x]]
MapRemove(m, k) == [x \in DOMAIN m \ {k} |-> m[x]]

\* an intern that gives every call a new number, bound or not
inodes_add_always(ins, path) ==
    {[ins |-> [list |-> MapInsert(ins.list, ins.max_inode + 1, path),
               max_inode |-> ins.max_inode + 1],
      ret |-> ins.max_inode + 1]}

\* Inodes::add: the possible outcomes [ins: table after, ret: inode returned]
inodes_add(ins, path) ==
    {IF found.some
     THEN [ins |-> ins, ret |-> found.val]
     ELSE [ins |-> [list |-> MapInsert(ins.list, ins.max_inode + 1, path),
                    max_inode |-> ins.max_inode + 1],
           ret |-> ins.max_inode + 1] : found \in get_inode(ins, path)}

\* mutant of del_inode: gives the number back by lowering max_inode
inodes_del_inode_dec(ins, inode) ==
    IF inode \in DOMAIN ins.list
    THEN [ins |-> [list |-> MapRemove(ins.list, inode),
                   max_inode |-> IF inode = ins.max_inode THEN inode - 1 ELSE ins.max_inode],
          ret |-> Some(inode)]
    ELSE [ins |-> ins, ret |-> None]

\* Inodes::del_inode
inodes_del_inode(ins, inode) ==
    IF inode \in DOMAIN ins.list
    THEN [ins |-> [ins EXCEPT !.list = MapRemove(ins.list, inode)], ret |-> Some(inode)]
    ELSE [ins |-> ins, ret |-> None]

\* Inodes::_rename
inodes_rename(ins, old_path, new_path) ==
    {IF ~inode.some
     THEN [ins |-> ins, ret |-> FALSE]
     ELSE [ins |-> [ins EXCEPT !.list = MapInsert(ins.list, inode.val, new_path)],
           ret |-> TRUE] : inode \in get_inode(ins, old_path)}

\* ------------------------------------------------------------------------
\* The host file system under the server: std::fs as the session calls it
\* ------------------------------------------------------------------------
S_root == <<"/">>
S_srv == <<"/", "s", "r", "v">>
S_etc == <<"/", "e", "t", "c">>
S_etc_passwd == <<"/", "e", "t", "c", "/", "p", "a", "s", "s", "w", "d">>
S_a == <<"a">>
S_b == <<"b">>
S_d == <<"d">>
S_slash_d == <<"/", "d">>
S_missing == <<"n", "o">>
S_m == <<"m">>
S_up_etc_passwd == <<".", ".", "/", "e", "t", "c", "/", "p", "a", "s", "s", "w", "d">>

DirNode == [kind |-> "dir", data |-> <<>>]
FileNode(d) == [kind |-> "file", data |-> d]

\* names binds canonical absolute paths to nodes; nodes holds the objects,
\* which outlive their names while a File refers to them
HostInit ==
    [names |-> (S_root :> 1) @@ (S_srv :> 2) @@ (virtual_root :> 3)
               @@ (join(virtual_root, S_a) :> 4) @@ (join(virtual_root, S_d) :> 5)
               @@ (S_etc :> 6) @@ (S_etc_passwd :> 7),
     nodes |-> <<DirNode, DirNode, DirNode, FileNode(<<1, 0>>), DirNode,
                 DirNode, FileNode(<<1>>)>>]

Canon(cur) == <<Sep>> \o Join(cur)

IsDirAt(fs, canon) ==
    canon \in DOMAIN fs.names /\ fs.nodes[fs.names[canon]].kind = "dir"

RECURSIVE Walk(_, _, _)
\* path resolution: every component is applied to an existing directory,
\* ".." pops one name (and stays at "/")
Walk(fs, cs, cur) ==
    IF cs = <<>> THEN Ok(Canon(cur))
    ELSE IF ~IsDirAt(fs, Canon(cur)) THEN Err("ENOENT")
    ELSE IF Head(cs) = DotDot
         THEN Walk(fs, Tail(cs), IF cur = <<>> THEN cur ELSE SubSeq(cur, 1, Len(cur) - 1))
    ELSE Walk(fs, Tail(cs), cur \o <<Head(cs)>>)

\* the canonical path an absolute path names, whether or not it exists
Resolve(fs, path) == Walk(fs, Tail(Components(path)), <<>>)

\* Path::exists, fs::metadata(..).is_ok()
Exists(fs, path) ==
    Resolve(fs, path).ok /\ Resolve(fs, path).val \in DOMAIN fs.names

\* Path::canonicalize
canonicalize(fs, path) ==
    IF Exists(fs, path) THEN Resolve(fs, path) ELSE Err("ENOENT")

NodeOf(fs, path) == fs.names[Resolve(fs, path).val]

ParentOf(canon) ==
    LET cs == Components(canon) IN Canon(SubSeq(cs, 2, Len(cs) - 1))

\* the names directly under the directory canon
ChildrenOf(fs, canon) == {c \in DOMAIN fs.names : c # S_root /\ ParentOf(c) = canon}

FileName(canon) == LET cs == Components(canon) IN cs[Len(cs)]

\* fs::metadata / fs::symlink_metadata (the host holds no symlinks)
metadata(fs, path) ==
    IF ~Exists(fs, path) THEN Err("ENOENT")
    ELSE LET n == NodeOf(fs, path) IN
         Ok([node |-> n, kind |-> fs.nodes[n].kind, size |-> Len(fs.nodes[n].data)])

\* OpenOptions::open: [fs: host after, ret: io::Result<File>]
\* a File is [node, read, write]; its cursor is set by a seek before every
\* transfer in the session and is not kept here
host_open(fs, path, opts) ==
    LET r == Resolve(fs, path) IN
    IF ~(opts.read \/ opts.write) THEN [fs |-> fs, ret |-> Err("EINVAL")]
    ELSE IF (opts.create \/ opts.truncate) /\ ~opts.write THEN [fs |-> fs, ret |-> Err("EINVAL")]
    ELSE IF ~r.ok THEN [fs |-> fs, ret |-> Err("ENOENT")]
    ELSE IF r.val \in DOMAIN fs.names
    THEN LET n == fs.names[r.val] IN
         IF fs.nodes[n].kind = "dir" /\ opts.write THEN [fs |-> fs, ret |-> Err("EISDIR")]
         ELSE [fs |-> IF opts.truncate /\ fs.nodes[n].kind = "file"
                      THEN [fs EXCEPT !.nodes[n].data = <<>>] ELSE fs,
               ret |-> Ok([node |-> n, read |-> opts.read, write |-> opts.write])]
    ELSE IF ~opts.create THEN [fs |-> fs, ret |-> Err("ENOENT")]
    ELSE IF ~IsDirAt(fs, ParentOf(r.val)) THEN [fs |-> fs, ret |-> Err("ENOENT")]
    ELSE LET n == Len(fs.nodes) + 1 IN
         [fs |-> [names |-> (r.val :> n) @@ fs.names,
                  nodes |-> Append(fs.nodes, FileNode(<<>>))],
          ret |-> Ok([node |-> n, read |-> opts.read, write |-> opts.write])]

\* fs::remove_file
host_remove_file(fs, path) ==
    IF ~Exists(fs, path) THEN [fs |-> fs, ret |-> Err("ENOENT")]
    ELSE IF fs.nodes[NodeOf(fs, path)].kind = "dir" THEN [fs |-> fs, ret |-> Err("EISDIR")]
    ELSE [fs |-> [fs EXCEPT !.names = MapRemove(fs.names, Resolve(fs, path).val)],
          ret |-> Ok("unit")]

\* fs::create_dir
host_create_dir(fs, path) ==
    LET r == Resolve(fs, path) IN
    IF ~r.ok THEN [fs |-> fs, ret |-> Err("ENOENT")]
    ELSE IF r.val \in DOMAIN fs.names THEN [fs |-> fs, ret |-> Err("EEXIST")]
    ELSE IF ~IsDirAt(fs, ParentOf(r.val)) THEN [fs |-> fs, ret |-> Err("ENOENT")]
    ELSE [fs |-> [names |-> (r.val :> (Len(fs.nodes) + 1)) @@ fs.names,
                  nodes |-> Append(fs.nodes, DirNode)],
          ret |-> Ok("unit")]

\* fs::remove_dir
host_remove_dir(fs, path) ==
    IF ~Exists(fs, path) THEN [fs |-> fs, ret |-> Err("ENOENT")]
    ELSE IF fs.nodes[NodeOf(fs, path)].kind # "dir" THEN [fs |-> fs, ret |-> Err("ENOTDIR")]
    ELSE IF ChildrenOf(fs, Resolve(fs, path).val) # {} THEN [fs |-> fs, ret |-> Err("ENOTEMPTY")]
    ELSE [fs |-> [fs EXCEPT !.names = MapRemove(fs.names, Resolve(fs, path).val)],
          ret |-> Ok("unit")]

\* fs::rename, between names of one directory level; a directory is moved
\* only while it is empty in this model's inputs
host_rename(fs, old, new) ==
    LET ro == Resolve(fs, old)
        rn == Resolve(fs, new)
    IN IF ~Exists(fs, old) \/ ~rn.ok THEN [fs |-> fs, ret |-> Err("ENOENT")]
       ELSE IF ~IsDirAt(fs, ParentOf(rn.val)) THEN [fs |-> fs, ret |-> Err("ENOENT")]
       ELSE IF /\ rn.val \in DOMAIN fs.names
               /\ fs.nodes[fs.names[rn.val]].kind # fs.nodes[fs.names[ro.val]].kind
            THEN [fs |-> fs, ret |-> Err("EISDIR")]
       ELSE IF rn.val \in DOMAIN fs.names /\ ChildrenOf(fs, rn.val) # {}
            THEN [fs |-> fs, ret |-> Err("ENOTEMPTY")]
       ELSE IF ChildrenOf(fs, ro.val) # {} THEN [fs |-> fs, ret |-> Err("EXDEV")]
       ELSE IF ro.val = rn.val THEN [fs |-> fs, ret |-> Ok("unit")]
       ELSE [fs |-> [fs EXCEPT !.names =
                        (rn.val :> fs.names[ro.val]) @@ MapRemove(fs.names, ro.val)],
             ret |-> Ok("unit")]

\* File::read after seek(offset): the bytes [offset, offset+len) that exist
host_read(fs, file, offset, len) ==
    IF ~file.read \/ fs.nodes[file.node].kind = "dir" THEN Err("EBADF")
    ELSE LET d == fs.nodes[file.node].data
             hi == IF offset + len < Len(d) THEN offset + len ELSE Len(d)
         IN Ok(SubSeq(d, offset + 1, hi))

\* mutant of host_write: the seek is missing and the data lands at the
\* start of the file
host_write_at_start(fs, file, offset, data) ==
    IF ~file.write THEN [fs |-> fs, ret |-> Err("EBADF")]
    ELSE LET d == fs.nodes[file.node].data IN
         [fs |-> [fs EXCEPT !.nodes[file.node].data =
                     data \o SubSeq(d, Len(data) + 1, Len(d))],
          ret |-> Ok(Len(data))]

\* File::write after seek(offset): a gap before offset is filled with zeros
host_write(fs, file, offset, data) ==
    IF ~file.write THEN [fs |-> fs, ret |-> Err("EBADF")]
    ELSE LET d == fs.nodes[file.node].data
             n == IF offset + Len(data) > Len(d) THEN offset + Len(data) ELSE Len(d)
             nd == [k \in 1..n |->
                       IF k > offset /\ k <= offset + Len(data) THEN data[k - offset]
                       ELSE IF k <= Len(d) THEN d[k] ELSE 0]
         IN [fs |-> [fs EXCEPT !.nodes[file.node].data = nd],
             ret |-> Ok(Len(data))]

\* ------------------------------------------------------------------------
\* server/src/sftp_server.rs: SftpSession
\* ------------------------------------------------------------------------
Digit(n) == <<"0", "1", "2", "3", "4", "5", "6", "7", "8", "9">>[n + 1]

RECURSIVE Decimal(_)
\* "{}" of a u32
Decimal(n) == IF n < 10 THEN <<Digit(n)>> ELSE Decimal(n \div 10) \o <<Digit(n % 10)>>

\* format!("handle_{}", id)
HandleStr(id) == <<"h", "a", "n", "d", "l", "e", "_">> \o Decimal(id)

\* a session built by Default::default(), which forgets the username
new_with_username_default(username) ==
    [version |-> None,
     root_dir_read_done |-> FALSE,
     cwd_offset |-> <<Sep>>,
     handles |-> <<>>,
     file_handles |-> <<>>,
     req_done |-> <<>>,
     user |-> "",
     alive |-> TRUE,
     hist |-> <<>>]

\* SftpSession::new_with_username; alive is the session task (a panic in a
\* handler ends it); hist is kept for the properties only: for each token
\* issued, whether it was closed and not issued again, and the number of
\* readdir calls (counted up to 3) it has seen since it was issued
new_with_username(username) ==
    [version |-> None,
     root_dir_read_done |-> FALSE,
     cwd_offset |-> <<Sep>>,
     handles |-> <<>>,
     file_handles |-> <<>>,
     req_done |-> <<>>,
     user |-> username,
     alive |-> TRUE,
     hist |-> <<>>]

\* an audit event: info!(username = .., action = .., target = ..)
AuditEvent(user, action, target) ==
    [username |-> user, action |-> action, target |-> target]

\* outcomes of a handler: the session and the host after it, the reply
\* (Panic: the handler panicked, nothing is sent) and the events emitted
Outcome(ss, fs, reply, audit) == [sess |-> ss, fs |-> fs, reply |-> reply, audit |-> audit]
Panicked(ss, fs) == Outcome([ss EXCEPT !.alive = FALSE], fs, [tag |-> "Panic"], <<>>)
\* Err(StatusCode): sent as a status reply carrying the code
Failed(ss, fs, code) == Outcome(ss, fs, [tag |-> "Error", code |-> code], <<>>)
StatusOk(id) == [tag |-> "Status", id |-> id, code |-> "Ok"]

\* mutant of check_req_done: reports the flag and forgets to flip it
check_req_done_noflip(ss, id) ==
    [sess |-> ss, ret |-> ss.root_dir_read_done]

\* SftpSession::check_req_done: [sess, ret]
check_req_done(ss, id) ==
    [sess |-> [ss EXCEPT !.root_dir_read_done = ~ss.root_dir_read_done],
     ret |-> ss.root_dir_read_done]

\* mutant of init: the duplicate-init guard is missing
sftp_init_again(ss, fs, version) ==
    {Outcome([ss EXCEPT !.cwd_offset = <<Sep>>, !.version = Some(version)],
             fs, [tag |-> "Version"], <<>>)}

\* SftpSession::init
sftp_init(ss, fs, version) ==
    IF ss.version.some THEN {Failed(ss, fs, "ConnectionLost")}
    ELSE {Outcome([ss EXCEPT !.cwd_offset = <<Sep>>, !.version = Some(version)],
                  fs, [tag |-> "Version"], <<>>)}

\* SftpSession::close
sftp_close(ss, fs, id, handle) ==
    {Outcome([ss EXCEPT !.handles = MapRemove(@, handle),
                        !.hist = IF handle \in DOMAIN ss.handles
                                 THEN MapInsert(@, handle, [closed |-> TRUE, reads |-> 0])
                                 ELSE @],
             fs, StatusOk(id), <<>>)}

\* From<OpenFlags> for OpenOptions, and write(true) when CREATE is set
OpenOptionsOf(pflags) ==
    [read |-> "READ" \in pflags,
     write |-> "WRITE" \in pflags \/ "CREATE" \in pflags,
     create |-> "CREATE" \in pflags,
     truncate |-> "TRUNCATE" \in pflags]

\* SftpSession::open
sftp_open(ss, fs, id, filename, pflags) ==
    LET path == to_real_path(join(ss.cwd_offset, filename)) IN
    IF ~path.ok THEN {Panicked(ss, fs)}
    ELSE LET handle_str == HandleStr(id)
             o == host_open(fs, path.val, OpenOptionsOf(pflags))
         IN IF ~o.ret.ok THEN {Panicked(ss, o.fs)}
            ELSE {Outcome([ss EXCEPT !.handles = MapInsert(@, handle_str, path.val),
                                     !.file_handles = MapInsert(@, handle_str, o.ret.val),
                                     !.hist = MapInsert(@, handle_str, [closed |-> FALSE, reads |-> 0])],
                          o.fs,
                          [tag |-> "Handle", id |-> id, handle |-> handle_str],
                          <<AuditEvent(ss.user, "Open", path.val)>>)}

\* FileAttributes::from(&metadata)
AttrsOf(md) == [kind |-> md.kind, size |-> md.size]

\* SftpSession::lstat
sftp_lstat(ss, fs, id, path) ==
    LET real_path == to_real_path(join(ss.cwd_offset, path)) IN
    IF ~real_path.ok THEN {Panicked(ss, fs)}
    ELSE LET md == metadata(fs, real_path.val) IN
         IF ~md.ok THEN {Panicked(ss, fs)}
         ELSE {Outcome(ss, fs, [tag |-> "Attrs", id |-> id, attrs |-> AttrsOf(md.val)],
                       <<AuditEvent(ss.user, "Lstat", real_path.val)>>)}

\* SftpSession::fstat
sftp_fstat(ss, fs, id, handle) ==
    IF handle \notin DOMAIN ss.handles THEN {Failed(ss, fs, "NoSuchFile")}
    ELSE LET real_path == to_real_path(join(ss.cwd_offset, ss.handles[handle])) IN
         IF ~real_path.ok THEN {Panicked(ss, fs)}
         ELSE LET md == metadata(fs, real_path.val) IN
              IF ~md.ok THEN {Panicked(ss, fs)}
              ELSE {Outcome(ss, fs, [tag |-> "Attrs", id |-> id, attrs |-> AttrsOf(md.val)],
                            <<AuditEvent(ss.user, "Fstat", real_path.val)>>)}

\* SftpSession::setstat
sftp_setstat(ss, fs, id, path) == {Failed(ss, fs, "OpUnsupported")}

\* SftpSession::read
sftp_read(ss, fs, id, handle, offset, len) ==
    IF handle \notin DOMAIN ss.file_handles THEN {Panicked(ss, fs)}
    ELSE LET file == ss.file_handles[handle]
             file_size == Len(fs.nodes[file.node].data)
         IN IF offset >= file_size THEN {Failed(ss, fs, "Eof")}
            ELSE LET buf == host_read(fs, file, offset, len) IN
                 IF ~buf.ok THEN {Panicked(ss, fs)}
                 ELSE IF handle \notin DOMAIN ss.handles THEN {Panicked(ss, fs)}
                 ELSE {Outcome(ss, fs, [tag |-> "Data", id |-> id, data |-> buf.val],
                               <<AuditEvent(ss.user, "Read", ss.handles[handle])>>)}

\* SftpSession::write
sftp_write(ss, fs, id, handle, offset, data) ==
    IF handle \notin DOMAIN ss.file_handles THEN {Failed(ss, fs, "Eof")}
    ELSE LET w == host_write(fs, ss.file_handles[handle], offset, data) IN
         IF ~w.ret.ok THEN {Panicked(ss, w.fs)}
         ELSE IF w.ret.val < Len(data) THEN {Failed(ss, w.fs, "Eof")}
         ELSE IF handle \notin DOMAIN ss.handles THEN {Panicked(ss, w.fs)}
         ELSE {Outcome(ss, w.fs, StatusOk(id),
                       <<AuditEvent(ss.user, "Write", ss.handles[handle])>>)}

\* SftpSession::remove
sftp_remove(ss, fs, id, filename) ==
    LET real_path == to_real_path(join(ss.cwd_offset, filename)) IN
    IF ~real_path.ok THEN {Panicked(ss, fs)}
    ELSE LET r == host_remove_file(fs, real_path.val) IN
         IF ~r.ret.ok THEN {Panicked(ss, r.fs)}
         ELSE {Outcome(ss, r.fs, StatusOk(id),
                       <<AuditEvent(ss.user, "Remove", real_path.val)>>)}

\* SftpSession::opendir
sftp_opendir(ss, fs, id, path) ==
    LET vpath == join(ss.cwd_offset, path)
        handle_str == HandleStr(id)
        ss1 == [ss EXCEPT !.root_dir_read_done = FALSE,
                          !.handles = MapInsert(@, handle_str, vpath),
                          !.hist = MapInsert(@, handle_str, [closed |-> FALSE, reads |-> 0])]
        real_path == to_real_path(vpath)
    IN IF ~real_path.ok THEN {Panicked(ss1, fs)}
       ELSE {Outcome(ss1, fs, [tag |-> "Handle", id |-> id, handle |-> handle_str],
                     <<AuditEvent(ss.user, "OpenDir", real_path.val)>>)}

\* the orders in which fs::read_dir may yield the entries of a directory
Orders(S) == {f \in [1..Cardinality(S) -> S] : \A i, j \in DOMAIN f : f[i] = f[j] => i = j}

\* one File of a Name reply: the entry's file name and its attributes
\* (format_file_info and get_file_file_attributes read fs::metadata)
FileEntry(fs, filename, path) ==
    [filename |-> filename, attrs |-> AttrsOf(metadata(fs, path).val)]

\* SftpSession::readdir
sftp_readdir(ss, fs, id, handle) ==
    LET c == check_req_done(ss, id)
        ss1 == [c.sess EXCEPT !.hist =
                   IF handle \in DOMAIN @ /\ ~@[handle].closed /\ @[handle].reads < 3
                   THEN [@ EXCEPT ![handle].reads = @ + 1] ELSE @]
    IN IF c.ret THEN {Failed(ss1, fs, "Eof")}
       ELSE IF handle \notin DOMAIN ss1.handles THEN {Panicked(ss1, fs)}
       ELSE LET real_path == to_real_path(ss1.handles[handle]) IN
            IF ~real_path.ok THEN {Panicked(ss1, fs)}
            ELSE LET canon == canonicalize(fs, real_path.val) IN
                 IF ~canon.ok THEN {Panicked(ss1, fs)}
                 ELSE IF ~IsDirAt(fs, canon.val) THEN {Panicked(ss1, fs)}
                 ELSE {Outcome(ss1, fs,
                               [tag |-> "Name", id |-> id,
                                files |-> [k \in DOMAIN order |->
                                              FileEntry(fs, FileName(order[k]), order[k])]],
                               <<AuditEvent(ss.user, "ReadDir", canon.val)>>)
                       : order \in Orders(ChildrenOf(fs, canon.val))}

\* SftpSession::mkdir
sftp_mkdir(ss, fs, id, path) ==
    LET real_path == to_real_path(join(ss.cwd_offset, path)) IN
    IF ~real_path.ok THEN {Panicked(ss, fs)}
    ELSE LET r == host_create_dir(fs, real_path.val) IN
         IF ~r.ret.ok THEN {Panicked(ss, r.fs)}
         ELSE {Outcome(ss, r.fs, StatusOk(id),
                       <<AuditEvent(ss.user, "MakeDir", real_path.val)>>)}

\* SftpSession::rmdir
sftp_rmdir(ss, fs, id, path) ==
    LET real_path == to_real_path(join(ss.cwd_offset, path)) IN
    IF ~real_path.ok THEN {Panicked(ss, fs)}
    ELSE LET r == host_remove_dir(fs, real_path.val) IN
         IF ~r.ret.ok THEN {Panicked(ss, r.fs)}
         ELSE {Outcome(ss, r.fs, StatusOk(id),
                       <<AuditEvent(ss.user, "RemoveDir", real_path.val)>>)}

\* SftpSession::realpath
sftp_realpath(ss, fs, id, path) ==
    LET real_path == to_real_path(join(ss.cwd_offset, path)) IN
    IF ~real_path.ok THEN {Panicked(ss, fs)}
    ELSE LET ans == to_virtual_path(real_path.val) IN
         IF ~ans.ok THEN {Panicked(ss, fs)}
         ELSE IF ~Exists(fs, real_path.val) THEN {Failed(ss, fs, "NoSuchFile")}
         ELSE {Outcome(ss, fs,
                       [tag |-> "Name", id |-> id,
                        files |-> <<FileEntry(fs, ans.val, real_path.val)>>],
                       <<AuditEvent(ss.user, "RealPath", real_path.val)>>)}

\* a stat that logs the access before it looks at the host
sftp_stat_audit_first(ss, fs, id, path) ==
    LET real_path == to_real_path(join(ss.cwd_offset, path)) IN
    IF ~real_path.ok THEN {Panicked(ss, fs)}
    ELSE LET md == metadata(fs, real_path.val) IN
         IF ~md.ok
         THEN {Outcome(ss, fs, [tag |-> "Error", code |-> "NoSuchFile"],
                       <<AuditEvent(ss.user, "Stat", real_path.val)>>)}
         ELSE {Outcome(ss, fs, [tag |-> "Attrs", id |-> id, attrs |-> AttrsOf(md.val)],
                       <<AuditEvent(ss.user, "Stat", real_path.val)>>)}

\* SftpSession::stat
sftp_stat(ss, fs, id, path) ==
    LET real_path == to_real_path(join(ss.cwd_offset, path)) IN
    IF ~real_path.ok THEN {Panicked(ss, fs)}
    ELSE LET md == metadata(fs, real_path.val) IN
         IF ~md.ok THEN {Failed(ss, fs, "NoSuchFile")}
         ELSE {Outcome(ss, fs, [tag |-> "Attrs", id |-> id, attrs |-> AttrsOf(md.val)],
                       <<AuditEvent(ss.user, "Stat", real_path.val)>>)}

\* SftpSession::rename
sftp_rename(ss, fs, id, oldpath, newpath) ==
    LET old == to_real_path(join(ss.cwd_offset, oldpath))
        new == to_real_path(join(ss.cwd_offset, newpath))
    IN IF ~old.ok \/ ~new.ok THEN {Panicked(ss, fs)}
       ELSE LET r == host_rename(fs, old.val, new.val) IN
            IF ~r.ret.ok THEN {Panicked(ss, r.fs)}
            ELSE {Outcome(ss, r.fs, StatusOk(id),
                          <<AuditEvent(ss.user, "Rename", old.val)>>)}

\* ------------------------------------------------------------------------
\* Client: error translation and handle table (filesystem.rs)
\* ------------------------------------------------------------------------

\* libc errno values
EPERM == 1
ENOENT == 2
EIO == 5
ENXIO == 6
EBADF == 9
EACCES == 13
EEXIST == 17
ENODEV == 19
ENOTDIR == 20
EINVAL == 22
ENOSPC == 28
ENAMETOOLONG == 36
ENOLCK == 37
ENOTEMPTY == 39
ELOOP == 40
ENETDOWN == 100
EDQUOT == 122

\* ssh2::ErrorCode
SFTP(i) == [kind |-> "SFTP", code |-> i]
Session(i) == [kind |-> "Session", code |-> i]

\* a translation that answers every failure with the generic EIO
Error_from_eio(e) == EIO

\* impl From<ErrorCode> for Error
Error_from(e) ==
    IF e.kind = "Session" THEN ENXIO
    ELSE CASE e.code = 2 -> ENOENT
           [] e.code = 3 -> EACCES
           [] e.code = 4 -> EIO
           [] e.code = 5 -> ENODEV
           [] e.code = 6 -> ENXIO
           [] e.code = 7 -> ENETDOWN
           [] e.code = 8 -> ENODEV
           [] e.code = 9 -> EBADF
           [] e.code = 10 -> ENOENT
           [] e.code = 11 -> EEXIST
           [] e.code = 12 -> EACCES
           [] e.code = 13 -> ENXIO
           [] e.code = 14 -> ENOSPC
           [] e.code = 15 -> EDQUOT
           [] e.code = 16 -> ENODEV
           [] e.code = 17 -> ENOLCK
           [] e.code = 18 -> ENOTEMPTY
           [] e.code = 19 -> ENOTDIR
           [] e.code = 20 -> ENAMETOOLONG
           [] e.code = 21 -> ELOOP
           [] OTHER -> 0

\* conver_open_flag; a flags word is the set of the O_* bits it holds
\* (O_RDONLY is the absence of O_WRONLY and O_RDWR)
conver_open_flag(flags) ==
    (IF "O_WRONLY" \in flags THEN {"WRITE"}
     ELSE IF "O_RDWR" \in flags THEN {"READ", "WRITE"}
     ELSE {"READ"})
    \cup (IF "O_APPEND" \in flags THEN {"APPEND"} ELSE {})
    \cup (IF "O_CREAT" \in flags THEN {"CREATE"} ELSE {})
    \cup (IF "O_TRUNC" \in flags THEN {"TRUNCATE"} ELSE {})
    \cup (IF "O_EXCL" \in flags THEN {"EXCLUSIVE"} ELSE {})

\* FHandlers::default()
FHandlersDefault == [list |-> <<>>, next_fh |-> 0]

\* a table that hands out the lowest handle not in use, the way file
\* descriptors are numbered
fh_add_lowest_free(fhs, file) ==
    LET fh == CHOOSE n \in 0..fhs.next_fh :
                  n \notin DOMAIN fhs.list /\ \A k \in 0..(n - 1) : k \in DOMAIN fhs.list
    IN [fhs |-> [list |-> MapInsert(fhs.list, fh, file),
                 next_fh |-> IF fh = fhs.next_fh THEN fh + 1 ELSE fhs.next_fh],
        ret |-> fh]

\* FHandlers::add: [fhs: table after, ret: the handle]
fh_add(fhs, file) ==
    [fhs |-> [list |-> MapInsert(fhs.list, fhs.next_fh, file),
              next_fh |-> fhs.next_fh + 1],
     ret |-> fhs.next_fh]

\* FHandlers::get
fh_get(fhs, fh) == IF fh \in DOMAIN fhs.list THEN Some(fhs.list[fh]) ELSE None

\* FHandlers::del
fh_del(fhs, fh) ==
    IF fh \in DOMAIN fhs.list
    THEN [fhs |-> [fhs EXCEPT !.list = MapRemove(fhs.list, fh)], ret |-> Some(fhs.list[fh])]
    ELSE [fhs |-> fhs, ret |-> None]

\* ------------------------------------------------------------------------
\* Client: the remote calls made through ssh2::Sftp.  The remote tree is
\* hostfs; every call can also fail for a reason outside the tree.
\* ------------------------------------------------------------------------

\* the failures a remote call can report whatever the tree holds
RemoteFailures == {SFTP(4)}

\* the status a remote reports for a failed file-system call
SftpCode(e) ==
    IF e = "ENOENT" THEN SFTP(2) ELSE IF e = "EACCES" THEN SFTP(3) ELSE SFTP(4)

\* the results of a remote call whose result on the tree is r = [fs, ret]
Remote(fs, r) ==
    {IF r.ret.ok THEN r ELSE [fs |-> fs, ret |-> Err(SftpCode(r.ret.err))]}
    \cup {[fs |-> fs, ret |-> Err(c)] : c \in RemoteFailures}

\* Sftp::stat
remote_stat(fs, path) == Remote(fs, [fs |-> fs, ret |-> metadata(fs, path)])

\* Sftp::readdir: the children's full paths with their stats, in an order
\* the remote chooses; "." and ".." are left out
remote_readdir(fs, path) ==
    IF ~Exists(fs, path) THEN Remote(fs, [fs |-> fs, ret |-> Err("ENOENT")])
    ELSE IF fs.nodes[NodeOf(fs, path)].kind # "dir"
    THEN Remote(fs, [fs |-> fs, ret |-> Err("ENOTDIR")])
    ELSE UNION {Remote(fs, [fs |-> fs,
                            ret |-> Ok([k \in DOMAIN o |->
                                          [path |-> join(path, FileName(o[k])),
                                           stat |-> metadata(fs, o[k]).val]])])
                : o \in Orders(ChildrenOf(fs, Resolve(fs, path).val))}

\* Sftp::open_mode(path, flags, mode, OpenType::File)
remote_open_mode(fs, path, flags, mode) ==
    LET r == Resolve(fs, path) IN
    Remote(fs,
        IF ~r.ok THEN [fs |-> fs, ret |-> Err("ENOENT")]
        ELSE IF r.val \in DOMAIN fs.names
        THEN LET n == fs.names[r.val] IN
             IF {"CREATE", "EXCLUSIVE"} \subseteq flags THEN [fs |-> fs, ret |-> Err("EEXIST")]
             ELSE IF fs.nodes[n].kind = "dir" THEN [fs |-> fs, ret |-> Err("EISDIR")]
             ELSE [fs |-> IF {"TRUNCATE", "WRITE"} \subseteq flags
                          THEN [fs EXCEPT !.nodes[n].data = <<>>] ELSE fs,
                   ret |-> Ok([node |-> n, read |-> "READ" \in flags,
                               write |-> "WRITE" \in flags])]
        ELSE IF "CREATE" \notin flags THEN [fs |-> fs, ret |-> Err("ENOENT")]
        ELSE IF ~IsDirAt(fs, ParentOf(r.val)) THEN [fs |-> fs, ret |-> Err("ENOENT")]
        ELSE LET n == Len(fs.nodes) + 1 IN
             [fs |-> [names |-> (r.val :> n) @@ fs.names,
                      nodes |-> Append(fs.nodes, FileNode(<<>>))],
              ret |-> Ok([node |-> n, read |-> "READ" \in flags,
                          write |-> "WRITE" \in flags])])

\* Sftp::unlink
remote_unlink(fs, path) == Remote(fs, host_remove_file(fs, path))

\* Sftp::mkdir
remote_mkdir(fs, path, mode) == Remote(fs, host_create_dir(fs, path))

\* Sftp::rmdir
remote_rmdir(fs, path) == Remote(fs, host_remove_dir(fs, path))

\* ------------------------------------------------------------------------
\* Client: Sshfs and its callbacks (filesystem.rs).  A callback maps the
\* adapter state (ins, fhs) and the remote tree fs to the set of its
\* outcomes [ins, fhs, fs, replies, calls, panicked]: replies lists the
\* invocations of the reply capability, calls the remote calls issued.
\* ------------------------------------------------------------------------

\* no callback is running
Idle == [pc |-> "idle"]

\* the process has unwound out of a callback
Dead == [pc |-> "dead"]

ReplyError(e) == [kind |-> "error", errno |-> e]
ReplyEntry(attr) == [kind |-> "entry", attr |-> attr]
ReplyAttr(attr) == [kind |-> "attr", attr |-> attr]
ReplyOpened(fh, flags) == [kind |-> "opened", fh |-> fh, flags |-> flags]
ReplyEmptyOk == [kind |-> "ok"]
ReplyData(buf) == [kind |-> "data", data |-> buf]
ReplyWritten(n) == [kind |-> "written", size |-> n]
ReplyDirectoryOk(entries) == [kind |-> "dir", entries |-> entries]

Replied(ins, fhs, fs, reply, calls) ==
    [ins |-> ins, fhs |-> fhs, fs |-> fs, replies |-> <<reply>>, calls |-> calls,
     panicked |-> FALSE, call |-> Idle]

\* Option::unwrap on None: the callback unwinds before it reaches its reply
Unwound(ins, fhs, fs, calls) ==
    [ins |-> ins, fhs |-> fhs, fs |-> fs, replies |-> <<>>, calls |-> calls,
     panicked |-> TRUE, call |-> Dead]

\* Sshfs::new
Sshfs_new(root_path) ==
    [ins |-> (CHOOSE a \in inodes_add(InodesDefault, root_path) : TRUE).ins,
     fhs |-> FHandlersDefault]

\* Sshfs::get_attr: [ins: table after, ret: Result<FileAttr, ErrorCode>]
get_attr(ins, fs, path) ==
    UNION {IF r.ret.ok
           THEN {[ins |-> a.ins,
                  ret |-> Ok([ino |-> a.ret, size |-> r.ret.val.size,
                              kind |-> r.ret.val.kind])] : a \in inodes_add(ins, path)}
           ELSE {[ins |-> ins, ret |-> r.ret]}
           : r \in remote_stat(fs, path)}

CallStat(path) == [fn |-> "stat", path |-> path]

\* Filesystem::lookup
cb_lookup(ins, fhs, fs, parent, name) ==
    LET p == get_path(ins, parent) IN
    IF ~p.some THEN {Replied(ins, fhs, fs, ReplyError(ENOENT), <<>>)}
    ELSE LET path == join(p.val, name) IN
         {IF g.ret.ok
          THEN Replied(g.ins, fhs, fs, ReplyEntry(g.ret.val), <<CallStat(path)>>)
          ELSE Replied(g.ins, fhs, fs, ReplyError(ENOENT), <<CallStat(path)>>)
          : g \in get_attr(ins, fs, path)}

\* Filesystem::getattr
cb_getattr(ins, fhs, fs, ino) ==
    LET p == get_path(ins, ino) IN
    IF ~p.some THEN {Replied(ins, fhs, fs, ReplyError(ENOENT), <<>>)}
    ELSE {IF g.ret.ok
          THEN Replied(g.ins, fhs, fs, ReplyAttr(g.ret.val), <<CallStat(p.val)>>)
          ELSE Replied(g.ins, fhs, fs, ReplyError(Error_from(g.ret.err)), <<CallStat(p.val)>>)
          : g \in get_attr(ins, fs, p.val)}

\* the list readdir iterates: ".." and "." in front of the remote entries
WithDots(dir) ==
    <<[path |-> DotDot, stat |-> [kind |-> "dir"]],
      [path |-> Dot, stat |-> [kind |-> "dir"]]>> \o dir

\* Path::file_name, or the whole path where there is none
EntryName(path) ==
    IF path = Dot \/ path = DotDot THEN path
    ELSE LET cs == Components(path) IN
         IF cs = <<>> \/ cs[Len(cs)] \in {<<Sep>>, DotDot} THEN path ELSE cs[Len(cs)]

RECURSIVE readdir_iter(_, _, _, _, _)
\* the lazy map / take_while chain over dir from index k (0-based): the map
\* interns the entry, reply.add takes it unless the buffer (room entries
\* left) is full, and a full buffer ends the iteration.
\* The result is the set of [ins, entries].
readdir_iter(ins, dir, k, room, acc) ==
    IF k >= Len(dir) THEN {[ins |-> ins, entries |-> acc]}
    ELSE LET f == dir[k + 1]
             adds == IF f.path = Dot \/ f.path = DotDot
                     THEN {[ins |-> ins, ret |-> 1]}
                     ELSE inodes_add(ins, f.path)
         IN UNION {IF room = 0 THEN {[ins |-> a.ins, entries |-> acc]}
                   ELSE readdir_iter(a.ins, dir, k + 1, room - 1,
                            Append(acc, [ino |-> a.ret, offset |-> k + 1,
                                         kind |-> f.stat.kind,
                                         name |-> EntryName(f.path)]))
                   : a \in adds}

\* a readdir that does not skip the entries below offset
cb_readdir_noskip(ins, fhs, fs, offset, room, r, calls) ==
    IF r.ret.ok
    THEN {Replied(it.ins, fhs, fs, ReplyDirectoryOk(it.entries), calls)
          : it \in readdir_iter(ins, WithDots(r.ret.val), 0, room, <<>>)}
    ELSE {Replied(ins, fhs, fs, ReplyError(Error_from(r.ret.err)), calls)}

\* Filesystem::readdir once Sftp::readdir has returned r
cb_readdir_with(ins, fhs, fs, offset, room, r, calls) ==
    IF r.ret.ok
    THEN {Replied(it.ins, fhs, fs, ReplyDirectoryOk(it.entries), calls)
          : it \in readdir_iter(ins, WithDots(r.ret.val), offset, room, <<>>)}
    ELSE {Replied(ins, fhs, fs, ReplyError(Error_from(r.ret.err)), calls)}

\* Filesystem::readdir; room is what the kernel's buffer accepts
cb_readdir(ins, fhs, fs, ino, offset, room) ==
    LET p == get_path(ins, ino)
        calls == <<[fn |-> "readdir", path |-> p.val]>>
    IN
    IF ~p.some THEN {Replied(ins, fhs, fs, ReplyError(ENOENT), <<>>)}
    ELSE UNION {cb_readdir_with(ins, fhs, fs, offset, room, r, calls)
                : r \in remote_readdir(fs, p.val)}

\* Filesystem::open
cb_open(ins, fhs, fs, ino, flags) ==
    LET p == get_path(ins, ino)
        flags_ssh2 == conver_open_flag(flags)
        calls == <<[fn |-> "open_mode", path |-> p.val, flags |-> flags_ssh2,
                    mode |-> {"r", "w", "x"}]>>
    IN
    IF ~p.some THEN {Replied(ins, fhs, fs, ReplyError(ENOENT), <<>>)}
    ELSE {IF r.ret.ok
          THEN LET a == fh_add(fhs, r.ret.val) IN
               Replied(ins, a.fhs, r.fs, ReplyOpened(a.ret, flags), calls)
          ELSE Replied(ins, fhs, r.fs, ReplyError(Error_from(r.ret.err)), calls)
          : r \in remote_open_mode(fs, p.val, flags_ssh2, {"r", "w", "x"})}

\* Filesystem::release
cb_release(ins, fhs, fs, fh) ==
    {Replied(ins, fh_del(fhs, fh).fhs, fs, ReplyEmptyOk, <<>>)}

\* File::seek(SeekFrom::Start(offset)) on an ssh2 File
seek_results == {Ok("unit"), Err(SFTP(4))}

\* File::read into a buffer of want bytes with the cursor at pos: a short
\* read of any size from 1 up, 0 at end of file, or a failure
remote_read(fs, file, pos, want) ==
    LET d == fs.nodes[file.node].data
        avail == IF Len(d) - pos < want THEN Len(d) - pos ELSE want
    IN IF ~file.read \/ fs.nodes[file.node].kind # "file" THEN {Err(SFTP(4))}
       ELSE (IF avail <= 0 THEN {Ok(<<>>)}
             ELSE {Ok(SubSeq(d, pos + 1, pos + n)) : n \in 1..avail})
            \cup {Err(c) : c \in RemoteFailures}

\* mutant of read_loop: replies after the first remote read
read_once(fs, file, pos, want, buf) ==
    IF want = 0 THEN {ReplyData(buf)}
    ELSE {IF ~r.ok THEN ReplyError(ENOENT) ELSE ReplyData(buf \o r.val)
          : r \in remote_read(fs, file, pos, want)}

RECURSIVE read_loop(_, _, _, _, _)
\* the loop of Filesystem::read: the replies it can end with
read_loop(fs, file, pos, want, buf) ==
    IF want = 0 THEN {ReplyData(buf)}
    ELSE UNION {IF ~r.ok THEN {ReplyError(ENOENT)}
                ELSE IF r.val = <<>> THEN {ReplyData(buf)}
                ELSE read_loop(fs, file, pos + Len(r.val), want - Len(r.val), buf \o r.val)
                : r \in remote_read(fs, file, pos, want)}

\* Filesystem::read
cb_read(ins, fhs, fs, fh, offset, size) ==
    LET file == fh_get(fhs, fh)
        calls == <<[fn |-> "seek", offset |-> offset]>>
    IN
    IF ~file.some THEN {Replied(ins, fhs, fs, ReplyError(EINVAL), <<>>)}
    ELSE UNION {IF ~s.ok THEN {Replied(ins, fhs, fs, ReplyError(ENOENT), calls)}
                ELSE {Replied(ins, fhs, fs, rep, calls)
                      : rep \in read_loop(fs, file.val, offset, size, <<>>)}
                : s \in seek_results}

\* a write callback inside its loop: buf is what is left to send
Writing(fh, data, buf, pos) ==
    [pc |-> "write", fh |-> fh, data |-> data, buf |-> buf, pos |-> pos]

InLoop(ins, fhs, fs, c, calls) ==
    [ins |-> ins, fhs |-> fhs, fs |-> fs, replies |-> <<>>, calls |-> calls,
     panicked |-> FALSE, call |-> c]

\* Filesystem::write up to the loop
cb_write(ins, fhs, fs, fh, offset, data) ==
    LET file == fh_get(fhs, fh)
        calls == <<[fn |-> "seek", offset |-> offset]>>
    IN
    IF ~file.some THEN {Replied(ins, fhs, fs, ReplyError(EINVAL), <<>>)}
    ELSE {IF ~s.ok THEN Replied(ins, fhs, fs, ReplyError(ENOENT), calls)
          ELSE IF data = <<>> THEN Replied(ins, fhs, fs, ReplyWritten(0), calls)
          ELSE InLoop(ins, fhs, fs, Writing(fh, data, data, offset), calls)
          : s \in seek_results}

\* File::write(buf) with the cursor at pos: the remote takes the first n
\* bytes, n from 0 up, or fails
remote_write(fs, file, pos, buf) ==
    (IF ~file.write \/ fs.nodes[file.node].kind # "file"
     THEN {[fs |-> fs, ret |-> Err(SFTP(4))]}
     ELSE {[fs |-> host_write(fs, file, pos, SubSeq(buf, 1, n)).fs, ret |-> Ok(n)]
           : n \in 0..Len(buf)})
    \cup {[fs |-> fs, ret |-> Err(c)] : c \in RemoteFailures}

\* one pass of the loop of Filesystem::write, and the reply after it
cb_write_loop(ins, fhs, fs, c, calls) ==
    {IF ~r.ret.ok THEN Replied(ins, fhs, r.fs, ReplyError(ENOENT), calls)
     ELSE LET buf == SubSeq(c.buf, r.ret.val + 1, Len(c.buf)) IN
          IF buf = <<>> THEN Replied(ins, fhs, r.fs, ReplyWritten(Len(c.data)), calls)
          ELSE InLoop(ins, fhs, r.fs, Writing(c.fh, c.data, buf, c.pos + r.ret.val), calls)
     : r \in remote_write(fs, fhs.list[c.fh], c.pos, c.buf)}

\* the write callback between the return of file.write, which took n
\* bytes, and the slicing of buf
Wrote(c, n) ==
    [pc |-> "wrote", fh |-> c.fh, data |-> c.data, buf |-> c.buf, pos |-> c.pos, n |-> n]

\* the loop of Filesystem::write in two steps.  First the call file.write(buf):
\* an error is replied as ENOENT, Ok(n) is kept for the slicing
cb_write_call(ins, fhs, fs, c, calls) ==
    {IF ~r.ret.ok THEN Replied(ins, fhs, r.fs, ReplyError(ENOENT), calls)
     ELSE InLoop(ins, fhs, r.fs, Wrote(c, r.ret.val), calls)
     : r \in remote_write(fs, fhs.list[c.fh], c.pos, c.buf)}

\* then buf = &buf[n..] and the loop test: the reply once buf is empty,
\* another pass otherwise
cb_write_slice(ins, fhs, fs, c, calls) ==
    LET buf == SubSeq(c.buf, c.n + 1, Len(c.buf)) IN
    IF buf = <<>> THEN {Replied(ins, fhs, fs, ReplyWritten(Len(c.data)), calls)}
    ELSE {InLoop(ins, fhs, fs, Writing(c.fh, c.data, buf, c.pos + c.n), calls)}

\* a mask that sends the requested mode as it came, ignoring the umask
MaskMode_unmasked(mode, umask) == mode

\* mode & (!umask | S_IFMT); a mode is [fmt, perm] with perm a set of bits
MaskMode(mode, umask) == [fmt |-> mode.fmt, perm |-> mode.perm \ umask]

\* Filesystem::mknod
cb_mknod(ins, fhs, fs, parent, name, mode, umask) ==
    LET p == get_path(ins, parent)
        path == join(p.val, name)
        calls == <<[fn |-> "open_mode", path |-> path, flags |-> {"CREATE"},
                    mode |-> MaskMode(mode, umask)]>>
    IN
    IF mode.fmt # "S_IFREG" THEN {Replied(ins, fhs, fs, ReplyError(EPERM), <<>>)}
    ELSE IF ~p.some THEN {Replied(ins, fhs, fs, ReplyError(ENOENT), <<>>)}
    ELSE UNION {IF ~r.ret.ok
                THEN {Replied(ins, fhs, r.fs, ReplyError(Error_from(r.ret.err)), calls)}
                ELSE {IF g.ret.ok
                      THEN Replied(g.ins, fhs, r.fs, ReplyEntry(g.ret.val),
                                   Append(calls, CallStat(path)))
                      ELSE Replied(g.ins, fhs, r.fs, ReplyError(Error_from(g.ret.err)),
                                   Append(calls, CallStat(path)))
                      : g \in get_attr(ins, r.fs, path)}
                : r \in remote_open_mode(fs, path, {"CREATE"}, MaskMode(mode, umask))}

\* a tail that acknowledges the removal but leaves the inode in the table
retire_after_keep(ins, fhs, fs, path, r, calls) ==
    IF ~r.ret.ok THEN {Replied(ins, fhs, r.fs, ReplyError(Error_from(r.ret.err)), calls)}
    ELSE {IF ~ino.some THEN Unwound(ins, fhs, r.fs, calls)
          ELSE Replied(ins, fhs, r.fs, ReplyEmptyOk, calls)
          : ino \in get_inode(ins, path)}

\* the tail shared by unlink and rmdir once the remote call has returned r
retire_after(ins, fhs, fs, path, r, calls) ==
    IF ~r.ret.ok THEN {Replied(ins, fhs, r.fs, ReplyError(Error_from(r.ret.err)), calls)}
    ELSE {IF ~ino.some THEN Unwound(ins, fhs, r.fs, calls)
          ELSE Replied(inodes_del_inode(ins, ino.val).ins, fhs, r.fs, ReplyEmptyOk, calls)
          : ino \in get_inode(ins, path)}

\* an unlink that retires the inode of the directory instead of the
\* inode of the entry removed from it
cb_unlink_parent(ins, fhs, fs, parent, name) ==
    LET p == get_path(ins, parent)
        path == join(p.val, name)
        calls == <<[fn |-> "unlink", path |-> path]>>
    IN
    IF ~p.some THEN {Replied(ins, fhs, fs, ReplyError(ENOENT), <<>>)}
    ELSE UNION {retire_after(ins, fhs, fs, p.val, r, calls) : r \in remote_unlink(fs, path)}

\* Filesystem::unlink
cb_unlink(ins, fhs, fs, parent, name) ==
    LET p == get_path(ins, parent)
        path == join(p.val, name)
        calls == <<[fn |-> "unlink", path |-> path]>>
    IN
    IF ~p.some THEN {Replied(ins, fhs, fs, ReplyError(ENOENT), <<>>)}
    ELSE UNION {retire_after(ins, fhs, fs, path, r, calls) : r \in remote_unlink(fs, path)}

\* Filesystem::mkdir
cb_mkdir(ins, fhs, fs, parent, name, mode, umask) ==
    LET p == get_path(ins, parent)
        path == join(p.val, name)
        calls == <<[fn |-> "mkdir", path |-> path, mode |-> MaskMode(mode, umask)]>>
    IN
    IF ~p.some THEN {Replied(ins, fhs, fs, ReplyError(ENOENT), <<>>)}
    ELSE UNION {IF ~r.ret.ok
                THEN {Replied(ins, fhs, r.fs, ReplyError(Error_from(r.ret.err)), calls)}
                ELSE {IF g.ret.ok
                      THEN Replied(g.ins, fhs, r.fs, ReplyEntry(g.ret.val),
                                   Append(calls, CallStat(path)))
                      ELSE Replied(g.ins, fhs, r.fs, ReplyError(Error_from(g.ret.err)),
                                   Append(calls, CallStat(path)))
                      : g \in get_attr(ins, r.fs, path)}
                : r \in remote_mkdir(fs, path, MaskMode(mode, umask))}

\* Filesystem::rmdir
cb_rmdir(ins, fhs, fs, parent, name) ==
    LET p == get_path(ins, parent)
        path == join(p.val, name)
        calls == <<[fn |-> "rmdir", path |-> path]>>
    IN
    IF ~p.some THEN {Replied(ins, fhs, fs, ReplyError(ENOENT), <<>>)}
    ELSE UNION {retire_after(ins, fhs, fs, path, r, calls) : r \in remote_rmdir(fs, path)}


\* ------------------------------------------------------------------------
\* server/src/auth.rs over the Users table of server/src/database.rs
\* ------------------------------------------------------------------------
\* the salts bcrypt may draw
Salts == {1, 2}

\* bcrypt::hash with the salt drawn: the hash string carries the salt and
\* the digest of salt and password
hash(password, salt) == [salt |-> salt, digest |-> <<salt, password>>]

\* bcrypt::verify: hashes the password with the salt of the stored hash
verify(password, h) == hash(password, h.salt) = h

\* initialize_database: the Users table holds admin; plain is kept for the
\* properties only: the password each stored hash was made from
UsersInit ==
    [Users |-> ("admin" :> [password |-> hash("admin_password", 1), role |-> "admin"]),
     plain |-> ("admin" :> "admin_password")]

\* User::new: [Users, plain] of the database, username and authed of the User
AuthInit == [Users |-> UsersInit.Users, plain |-> UsersInit.plain,
             username |-> "", authed |-> FALSE]

Accept == "Accept"
Reject == "Reject"

\* User::register: username is UNIQUE, so the INSERT of a name the table
\* holds fails.  The outcomes [auth, ret].
register(a, username, password) ==
    IF username \in DOMAIN a.Users
    THEN {[auth |-> a, ret |-> Err("UNIQUE constraint failed: Users.username")]}
    ELSE {[auth |-> [a EXCEPT !.Users = MapInsert(@, username,
                                   [password |-> hash(password, salt), role |-> "user"]),
                              !.plain = MapInsert(@, username, password)],
           ret |-> Ok("unit")] : salt \in Salts}

\* mutant of authenticate: the result of verify is not looked at
authenticate_any(a, username, password) ==
    IF username \notin DOMAIN a.Users THEN [auth |-> a, ret |-> Err("QueryReturnedNoRows")]
    ELSE [auth |-> [a EXCEPT !.username = username, !.authed = TRUE], ret |-> Ok("unit")]

\* User::authenticate: [auth, ret]
authenticate(a, username, password) ==
    IF username \notin DOMAIN a.Users THEN [auth |-> a, ret |-> Err("QueryReturnedNoRows")]
    ELSE IF verify(password, a.Users[username].password)
    THEN [auth |-> [a EXCEPT !.username = username, !.authed = TRUE], ret |-> Ok("unit")]
    ELSE [auth |-> a, ret |-> Err("Invalid password")]

\* an update that does not look at the old password
update_user_password_unverified(a, username, password, old_password) ==
    IF username \notin DOMAIN a.Users THEN {[auth |-> a, ret |-> Err("QueryReturnedNoRows")]}
    ELSE {[auth |-> [a EXCEPT !.Users[username].password = hash(password, salt),
                              !.plain[username] = password],
           ret |-> Ok("unit")] : salt \in Salts}

\* User::update_user_password: the outcomes [auth, ret]
update_user_password(a, username, password, old_password) ==
    IF username \notin DOMAIN a.Users THEN {[auth |-> a, ret |-> Err("QueryReturnedNoRows")]}
    ELSE IF verify(old_password, a.Users[username].password)
    THEN {[auth |-> [a EXCEPT !.Users[username].password = hash(password, salt),
                              !.plain[username] = password],
           ret |-> Ok("unit")] : salt \in Salts}
    ELSE {[auth |-> a, ret |-> Err("Invalid password")]}

\* SshSession::auth_password: [auth, ret]
auth_password(a, user, password) ==
    LET r == authenticate(a, user, password) IN
    [auth |-> r.auth, ret |-> IF r.ret.ok THEN Accept ELSE Reject]

\* ------------------------------------------------------------------------
\* Server: the audit log.  DatabaseLogger receives every tracing event of
\* the process and inserts the audit records into the AuditLogs table.
\* An event is a function from the names of its fields to their values; a
\* value is [via, val]: a string recorded with record_str, or another value
\* recorded with record_debug.
\* ------------------------------------------------------------------------
\* the actions the CHECK constraint of AuditLogs.action admits
AuditActions ==
    {"Open", "Close", "Read", "Write", "Remove", "OpenDir", "ReadDir", "MakeDir",
     "RemoveDir", "RealPath", "Rename"}

\* the AuditLogs table after initialize_database, on a connection that does
\* not enforce foreign keys (SQLite's default)
AuditDbInit == [AuditLogs |-> <<>>, foreign_keys |-> FALSE]

Str(s) == [via |-> "str", val |-> s]
Dbg(s) == [via |-> "debug", val |-> s]

\* LogVisitor::record_str and LogVisitor::record_debug over the fields of
\* an event: the visitor after event.record
LogVisitor_record(event) ==
    [f \in {"username", "action", "target"} |->
        IF f \notin DOMAIN event THEN None
        ELSE IF event[f].via = "str" THEN Some(event[f].val)
        ELSE IF f = "target" THEN Some(ToString(event[f].val))
        ELSE None]

\* LogVisitor::get_val
LogVisitor_get_val(visitor) ==
    IF visitor["username"].some /\ visitor["action"].some /\ visitor["target"].some
    THEN Some(<<visitor["username"].val, visitor["action"].val, visitor["target"].val>>)
    ELSE None

\* log_action_to_audit_logs: the INSERT, refused by the CHECK on action and,
\* where the connection enforces foreign keys, by the reference to Users
log_action_to_audit_logs(db, users, username, action, target) ==
    IF action \notin AuditActions THEN [db |-> db, ret |-> Err("CHECK")]
    ELSE IF db.foreign_keys /\ username \notin DOMAIN users
         THEN [db |-> db, ret |-> Err("FOREIGN KEY")]
    ELSE [db |-> [db EXCEPT !.AuditLogs =
                     Append(@, [log_id |-> Len(@) + 1, username |-> username,
                                action |-> action, target |-> target])],
          ret |-> Ok("unit")]

\* DatabaseLogger::on_event: the table after the event (a failed insert and
\* an incomplete event are reported on stderr only)
on_event(db, users, event) ==
    LET v == LogVisitor_get_val(LogVisitor_record(event)) IN
    IF v.some
    THEN log_action_to_audit_logs(db, users, v.val[1], v.val[2], v.val[3]).db
    ELSE db

\* ------------------------------------------------------------------------
\* Inputs
\* ------------------------------------------------------------------------
PathChars == {"/", ".", "a"}
Strings(n) == UNION {[1..k -> PathChars] : k \in 0..n}

S_dotdot == <<"/", ".", ".">>
S_dotdot_etc_passwd ==
    <<"/", ".", ".", "/", "e", "t", "c", "/", "p", "a", "s", "s", "w", "d">>
S_foo == <<"f", "o", "o">>

\* the virtual paths handed to VirtualRoot
VPaths == Strings(MaxPathLen) \cup {S_dotdot, S_dotdot_etc_passwd, S_foo}

S_srv_shared == virtual_root \o <<"d">>
S_srv_share_rel == Tail(virtual_root)

\* the real paths handed to VirtualRoot: the root followed by any string
\* (so "/srv/share/a", but also "/srv/sharea"), and paths elsewhere
RPaths == {virtual_root \o t : t \in Strings(MaxPathLen)}
          \cup {S_srv, S_etc_passwd, S_srv_shared, S_srv_share_rel, <<>>}

\* the remote paths handed to the inode table ("/a" and "/a/" are equal Paths)
InodePaths == {<<"/", "a">>, <<"/", "a", "/">>, <<"/", "b">>, <<"/", "a", "/", "b">>}

\* ------------------------------------------------------------------------
\* Specification of the virtual root: calls of its conversions
\* ------------------------------------------------------------------------
NoOp == [op |-> "none"]

InitVRoot ==
    /\ last = NoOp
    /\ inodes = InodesDefault
    /\ file_handles = FHandlersDefault
    /\ call = Idle
    /\ hostfs = HostInit
    /\ sess = <<>>
    /\ auth = AuthInit
    /\ audit_db = AuditDbInit

\* a conversion, its result ret and the result back of converting ret back
Converted(op, arg, ret, back) == [op |-> op, arg |-> arg, ret |-> ret, back |-> back]

RealThenVirtual(v, r) ==
    Converted("to_real_path", v, r, IF r.ok THEN to_virtual_path(r.val) ELSE r)

VirtualThenReal(p, r) ==
    Converted("to_virtual_path", p, r, IF r.ok THEN to_real_path(r.val) ELSE r)

ToRealPath ==
    \E v \in VPaths :
        /\ last' = RealThenVirtual(v, to_real_path(v))
        /\ UNCHANGED <<inodes, file_handles, call, hostfs, sess, auth, audit_db>>

ToVirtualPath ==
    \E p \in RPaths :
        /\ last' = VirtualThenReal(p, to_virtual_path(p))
        /\ UNCHANGED <<inodes, file_handles, call, hostfs, sess, auth, audit_db>>

NextVRoot == ToRealPath \/ ToVirtualPath

SpecVRoot == InitVRoot /\ [][NextVRoot]_vars

\* ------------------------------------------------------------------------
\* Specification of the error translation: Error::from(e.code())
\* ------------------------------------------------------------------------
\* ssh2::ErrorCode: an SFTP status other than FX_OK, or a negative libssh2
\* session error
ErrorCodes ==
    {SFTP(i) : i \in 1..MaxCode} \cup {Session(-i) : i \in 1..MaxCode}

ErrorFrom ==
    \E e \in ErrorCodes :
        /\ last' = [op |-> "Error_from", arg |-> e, ret |-> Error_from(e)]
        /\ UNCHANGED <<inodes, file_handles, call, hostfs, sess, auth, audit_db>>

NextErrors == ErrorFrom

SpecErrors == InitVRoot /\ [][NextErrors]_vars

\* ------------------------------------------------------------------------
\* Specification of authentication: registrations, password changes and
\* password logins over one Users table
\* ------------------------------------------------------------------------
RegisterNames == {"admin", "u"}
LoginNames == {"admin", "u", "unknown"}
NewPasswords == {"hunter2", "wrong"}
Passwords == {"hunter2", "wrong", "", "admin_password"}
UpdateNames == {"u", "unknown"}

Register ==
    \E u \in RegisterNames, pw \in NewPasswords : \E o \in register(auth, u, pw) :
        /\ auth' = o.auth
        /\ last' = [op |-> "register", username |-> u, password |-> pw, ret |-> o.ret]
        /\ UNCHANGED <<inodes, file_handles, call, hostfs, sess, audit_db>>

AuthPassword ==
    \E u \in LoginNames, pw \in Passwords :
        LET o == auth_password(auth, u, pw) IN
        /\ auth' = o.auth
        /\ last' = [op |-> "authenticate", username |-> u, password |-> pw, ret |-> o.ret]
        /\ UNCHANGED <<inodes, file_handles, call, hostfs, sess, audit_db>>

UpdateUserPassword ==
    \E u \in UpdateNames, pw \in NewPasswords, old \in NewPasswords :
        \E o \in update_user_password(auth, u, pw, old) :
            /\ auth' = o.auth
            /\ last' = [op |-> "update_user_password", username |-> u, password |-> pw,
                        old_password |-> old, ret |-> o.ret]
            /\ UNCHANGED <<inodes, file_handles, call, hostfs, sess, audit_db>>

NextAuth == Register \/ AuthPassword \/ UpdateUserPassword

SpecAuth == InitVRoot /\ [][NextAuth]_vars

\* ------------------------------------------------------------------------
\* Specification of the audit log: events reaching DatabaseLogger
\* ------------------------------------------------------------------------
LoggerNames == {"admin", "ghost"}
LoggerActions == {"Open", "Close", "Stat", "read"}
LoggerTargets == {Str("file.txt"), Dbg("file.txt")}
AuditEvents ==
    {("username" :> Str(u)) @@ ("action" :> Str(a)) @@ ("target" :> t)
     : u \in LoggerNames, a \in LoggerActions, t \in LoggerTargets}
PlainEvents ==
    {("message" :> Str("readdir handle: handle_1")),
     ("username" :> Str("admin")) @@ ("action" :> Str("Open")),
     ("username" :> Str("admin")) @@ ("target" :> Str("file.txt")),
     ("action" :> Str("Open")) @@ ("target" :> Str("file.txt")),
     ("username" :> Dbg("admin")) @@ ("action" :> Str("Open")) @@ ("target" :> Str("file.txt"))}

InitLogger ==
    /\ last = NoOp
    /\ inodes = InodesDefault
    /\ file_handles = FHandlersDefault
    /\ call = Idle
    /\ hostfs = HostInit
    /\ sess = <<>>
    /\ auth = AuthInit
    /\ \E b \in BOOLEAN : audit_db = [AuditDbInit EXCEPT !.foreign_keys = b]

\* an event of the process reaches the logger
OnEvent ==
    \E event \in AuditEvents \cup PlainEvents :
        LET db == on_event(audit_db, auth.Users, event) IN
        /\ Len(db.AuditLogs) <= MaxRows
        /\ audit_db' = db
        /\ last' = [op |-> "on_event", event |-> event]
        /\ UNCHANGED <<inodes, file_handles, call, hostfs, sess, auth>>

NextLogger == OnEvent

SpecLogger == InitLogger /\ [][NextLogger]_vars

\* ------------------------------------------------------------------------
\* Specification of the inode table: intern, retire, rebind
\* ------------------------------------------------------------------------
InitInodes ==
    /\ last = NoOp
    /\ inodes = InodesDefault
    /\ file_handles = FHandlersDefault
    /\ call = Idle
    /\ hostfs = HostInit
    /\ sess = <<>>
    /\ auth = AuthInit
    /\ audit_db = AuditDbInit

InodesAdd ==
    \E path \in InodePaths : \E o \in inodes_add(inodes, path) :
        /\ o.ins.max_inode <= MaxInode
        /\ inodes' = o.ins
        /\ last' = [op |-> "add", path |-> path, ret |-> o.ret]
        /\ UNCHANGED <<file_handles, call, hostfs, sess, auth, audit_db>>

InodesDel ==
    \E inode \in 1..MaxInode :
        LET o == inodes_del_inode(inodes, inode) IN
        /\ inodes' = o.ins
        /\ last' = [op |-> "del_inode", inode |-> inode, ret |-> o.ret]
        /\ UNCHANGED <<file_handles, call, hostfs, sess, auth, audit_db>>

InodesRename ==
    \E old_path \in InodePaths, new_path \in InodePaths :
        \E o \in inodes_rename(inodes, old_path, new_path) :
            /\ inodes' = o.ins
            /\ last' = [op |-> "_rename", old_path |-> old_path,
                        new_path |-> new_path, ret |-> o.ret]
            /\ UNCHANGED <<file_handles, call, hostfs, sess, auth, audit_db>>

NextInodes == InodesAdd \/ InodesDel \/ InodesRename

SpecInodes == InitInodes /\ [][NextInodes]_vars

\* ------------------------------------------------------------------------
\* Specification of the server: the requests of SFTP sessions
\* ------------------------------------------------------------------------
SessionIds == {1}
Ids == {1}              \* request ids of open and opendir
ReqIds == {3}           \* request ids of the other requests
Versions == {3, 6}
Tokens == {HandleStr(1), HandleStr(2)}
OpenArgs == {<<S_a, {"READ", "WRITE"}>>, <<S_up_etc_passwd, {"READ"}>>,
             <<S_missing, {"READ"}>>}
StatPaths == {S_a, S_missing}
DirPaths == {S_d}
Offsets == {0}
Lens == {1}
Datas == {<<1>>}
RemoveNames == {S_b}
RenamePairs == {<<S_a, S_b>>}
MkdirPaths == {S_m}

InitServer ==
    /\ last = NoOp
    /\ inodes = InodesDefault
    /\ file_handles = FHandlersDefault
    /\ call = Idle
    /\ hostfs = HostInit
    /\ sess = [s \in SessionIds |-> new_with_username(<<"a", "d", "m", "i", "n">>)]
    /\ auth = AuthInit
    /\ audit_db = AuditDbInit

\* a server that keeps one path-handle table for all of its sessions
Serve_shared(s, op, arg, o) ==
    /\ sess' = [t \in DOMAIN sess |->
                   IF t = s THEN o.sess ELSE [sess[t] EXCEPT !.handles = o.sess.handles]]
    /\ hostfs' = o.fs
    /\ last' = [sid |-> s, op |-> op, arg |-> arg, reply |-> o.reply, audit |-> o.audit]
    /\ UNCHANGED <<clientVars, auth, audit_db>>

\* one request served by session s with outcome o
Serve(s, op, arg, o) ==
    /\ sess' = [sess EXCEPT ![s] = o.sess]
    /\ hostfs' = o.fs
    /\ last' = [sid |-> s, op |-> op, arg |-> arg, reply |-> o.reply, audit |-> o.audit]
    /\ UNCHANGED <<clientVars, auth, audit_db>>

HostRoom(fs) == Len(fs.nodes) < Len(HostInit.nodes) + MaxNewNodes

\* SshSession::subsystem_request: a channel starts a fresh SFTP session
SubsystemRequest(s) ==
    /\ ~sess[s].alive
    /\ sess' = [sess EXCEPT ![s] = new_with_username(sess[s].user)]
    /\ last' = [sid |-> s, op |-> "subsystem_request"]
    /\ UNCHANGED <<inodes, file_handles, call, hostfs, auth, audit_db>>

ReqInit(s, version) ==
    /\ sess[s].alive
    /\ \E o \in sftp_init(sess[s], hostfs, version) :
          Serve(s, "init", [version |-> version], o)

ReqClose(s, id, handle) ==
    /\ sess[s].alive
    /\ \E o \in sftp_close(sess[s], hostfs, id, handle) :
          Serve(s, "close", [id |-> id, handle |-> handle], o)

ReqOpen(s, id, filename, pflags) ==
    /\ sess[s].alive
    /\ \E o \in sftp_open(sess[s], hostfs, id, filename, pflags) :
          /\ Len(o.fs.nodes) <= Len(HostInit.nodes) + MaxNewNodes
          /\ Serve(s, "open", [id |-> id, path |-> filename, pflags |-> pflags], o)

ReqLstat(s, id, path) ==
    /\ sess[s].alive
    /\ \E o \in sftp_lstat(sess[s], hostfs, id, path) :
          Serve(s, "lstat", [id |-> id, path |-> path], o)

ReqFstat(s, id, handle) ==
    /\ sess[s].alive
    /\ \E o \in sftp_fstat(sess[s], hostfs, id, handle) :
          Serve(s, "fstat", [id |-> id, handle |-> handle], o)

ReqSetstat(s, id, path) ==
    /\ sess[s].alive
    /\ \E o \in sftp_setstat(sess[s], hostfs, id, path) :
          Serve(s, "setstat", [id |-> id, path |-> path], o)

ReqRead(s, id, handle, offset, len) ==
    /\ sess[s].alive
    /\ \E o \in sftp_read(sess[s], hostfs, id, handle, offset, len) :
          Serve(s, "read", [id |-> id, handle |-> handle, offset |-> offset, len |-> len], o)

ReqWrite(s, id, handle, offset, data) ==
    /\ sess[s].alive
    /\ offset + Len(data) <= MaxFileLen
    /\ \E o \in sftp_write(sess[s], hostfs, id, handle, offset, data) :
          Serve(s, "write", [id |-> id, handle |-> handle, offset |-> offset, data |-> data], o)

ReqRemove(s, id, filename) ==
    /\ sess[s].alive
    /\ \E o \in sftp_remove(sess[s], hostfs, id, filename) :
          Serve(s, "remove", [id |-> id, path |-> filename], o)

ReqOpendir(s, id, path) ==
    /\ sess[s].alive
    /\ \E o \in sftp_opendir(sess[s], hostfs, id, path) :
          Serve(s, "opendir", [id |-> id, path |-> path], o)

ReqReaddir(s, id, handle) ==
    /\ sess[s].alive
    /\ \E o \in sftp_readdir(sess[s], hostfs, id, handle) :
          Serve(s, "readdir", [id |-> id, handle |-> handle], o)

ReqMkdir(s, id, path) ==
    /\ sess[s].alive
    /\ \E o \in sftp_mkdir(sess[s], hostfs, id, path) :
          /\ Len(o.fs.nodes) <= Len(HostInit.nodes) + MaxNewNodes
          /\ Serve(s, "mkdir", [id |-> id, path |-> path], o)

ReqRmdir(s, id, path) ==
    /\ sess[s].alive
    /\ \E o \in sftp_rmdir(sess[s], hostfs, id, path) :
          Serve(s, "rmdir", [id |-> id, path |-> path], o)

ReqRealpath(s, id, path) ==
    /\ sess[s].alive
    /\ \E o \in sftp_realpath(sess[s], hostfs, id, path) :
          Serve(s, "realpath", [id |-> id, path |-> path], o)

ReqStat(s, id, path) ==
    /\ sess[s].alive
    /\ \E o \in sftp_stat(sess[s], hostfs, id, path) :
          Serve(s, "stat", [id |-> id, path |-> path], o)

ReqRename(s, id, oldpath, newpath) ==
    /\ sess[s].alive
    /\ \E o \in sftp_rename(sess[s], hostfs, id, oldpath, newpath) :
          Serve(s, "rename", [id |-> id, path |-> oldpath, newpath |-> newpath], o)

NextServer ==
    \E s \in SessionIds :
        \/ SubsystemRequest(s)
        \/ \E v \in Versions : ReqInit(s, v)
        \/ \E id \in ReqIds, h \in Tokens : ReqClose(s, id, h)
        \/ \E id \in Ids, a \in OpenArgs : ReqOpen(s, id, a[1], a[2])
        \/ \E id \in ReqIds, p \in StatPaths : ReqLstat(s, id, p)
        \/ \E id \in ReqIds, h \in Tokens : ReqFstat(s, id, h)
        \/ \E id \in ReqIds, p \in StatPaths : ReqSetstat(s, id, p)
        \/ \E id \in ReqIds, h \in Tokens, off \in Offsets, n \in Lens : ReqRead(s, id, h, off, n)
        \/ \E id \in ReqIds, h \in Tokens, off \in Offsets, d \in Datas : ReqWrite(s, id, h, off, d)
        \/ \E id \in ReqIds, f \in RemoveNames : ReqRemove(s, id, f)
        \/ \E id \in Ids, p \in DirPaths : ReqOpendir(s, id, p)
        \/ \E id \in ReqIds, h \in Tokens : ReqReaddir(s, id, h)
        \/ \E id \in ReqIds, p \in MkdirPaths : ReqMkdir(s, id, p)
        \/ \E id \in ReqIds, p \in MkdirPaths : ReqRmdir(s, id, p)
        \/ \E id \in ReqIds, p \in StatPaths : ReqRealpath(s, id, p)
        \/ \E id \in ReqIds, p \in StatPaths : ReqStat(s, id, p)
        \/ \E id \in ReqIds, pp \in RenamePairs : ReqRename(s, id, pp[1], pp[2])

Spec == InitServer /\ [][NextServer]_vars

\* ------------------------------------------------------------------------
\* Specification of directory reading: two directory handles in a session
\* over a host that does not change
\* ------------------------------------------------------------------------
DirIds == {1, 2}
DirTokens == {HandleStr(id) : id \in DirIds}
ListedPaths == {S_root, S_d}

NextDirs ==
    \E s \in SessionIds :
        \/ \E id \in DirIds, p \in ListedPaths : ReqOpendir(s, id, p)
        \/ \E id \in ReqIds, h \in DirTokens : ReqReaddir(s, id, h)
        \/ \E id \in ReqIds, h \in DirTokens : ReqClose(s, id, h)

SpecDirs == InitServer /\ [][NextDirs]_vars

\* ------------------------------------------------------------------------
\* Specification of file transfer: opens, writes and reads on the file
\* handles of a session
\* ------------------------------------------------------------------------
FileIds == {1, 2}
FileTokens == {HandleStr(id) : id \in FileIds}
FileOpens == {<<S_a, {"READ", "WRITE"}>>, <<S_a, {"WRITE"}>>}
FileOffsets == {0, 1}
FileDatas == {<<>>, <<7>>, <<7, 8>>}
FileLens == {0, 1, 2}

NextFiles ==
    \E s \in SessionIds :
        \/ SubsystemRequest(s)
        \/ \E id \in FileIds, a \in FileOpens : ReqOpen(s, id, a[1], a[2])
        \/ \E id \in ReqIds, h \in FileTokens, off \in FileOffsets, d \in FileDatas :
              ReqWrite(s, id, h, off, d)
        \/ \E id \in ReqIds, h \in FileTokens, off \in FileOffsets, n \in FileLens :
              ReqRead(s, id, h, off, n)
        \/ \E id \in ReqIds, h \in FileTokens : ReqClose(s, id, h)

SpecFiles == InitServer /\ [][NextFiles]_vars

\* ------------------------------------------------------------------------
\* Specification of request failures: the requests that can be answered
\* with an error status, and the opens they need
\* ------------------------------------------------------------------------
AuditOpens == {<<S_a, {"READ"}>>, <<S_a, {"WRITE"}>>}
AuditOffsets == {0, 2}
AuditDatas == {<<7>>}

NextAudit ==
    \E s \in SessionIds :
        \/ SubsystemRequest(s)
        \/ \E id \in Ids, a \in AuditOpens : ReqOpen(s, id, a[1], a[2])
        \/ \E id \in ReqIds, h \in Tokens : ReqClose(s, id, h)
        \/ \E id \in ReqIds, h \in Tokens, off \in AuditOffsets, n \in Lens :
              ReqRead(s, id, h, off, n)
        \/ \E id \in ReqIds, h \in Tokens, off \in Offsets, d \in AuditDatas :
              ReqWrite(s, id, h, off, d)
        \/ \E id \in ReqIds, h \in Tokens : ReqFstat(s, id, h)
        \/ \E id \in ReqIds, p \in StatPaths : ReqSetstat(s, id, p)
        \/ \E id \in Ids, p \in DirPaths : ReqOpendir(s, id, p)
        \/ \E id \in ReqIds, h \in Tokens : ReqReaddir(s, id, h)
        \/ \E id \in ReqIds, p \in StatPaths : ReqRealpath(s, id, p)
        \/ \E id \in ReqIds, p \in StatPaths : ReqStat(s, id, p)

SpecAudit == InitServer /\ [][NextAudit]_vars

\* ------------------------------------------------------------------------
\* The mounted client: fuser::mount2 hands one callback at a time to Sshfs
\* ------------------------------------------------------------------------

\* an inode the table never binds
Unbound == MaxInode + 1
RegularMode == [fmt |-> "S_IFREG", perm |-> {"r", "w"}]
FifoMode == [fmt |-> "S_IFIFO", perm |-> {"r"}]
DirMode == [fmt |-> "S_IFDIR", perm |-> {"r", "w", "x"}]
ClientUmask == {"w"}
LookupArgs == {<<1, S_a>>, <<1, S_m>>, <<Unbound, S_a>>}
GetattrInos == {1, 2}
ReaddirArgs == {<<1, 0>>, <<1, 2>>, <<Unbound, 0>>}
ClientOpens == {<<2, {"O_RDWR"}>>}
ClientFhs == {0}
ReadArgs == {<<0, 0, 2>>}
WriteArgs == {<<0, 0, <<0>> >>}
MknodArgs == {<<1, S_m, RegularMode>>, <<1, S_a, FifoMode>>, <<Unbound, S_m, RegularMode>>}
UnlinkArgs == {<<1, S_a>>, <<1, S_m>>, <<Unbound, S_a>>}
MkdirArgs == {<<1, S_m>>, <<Unbound, S_m>>}
RmdirArgs == {<<1, S_m>>, <<Unbound, S_m>>}

InitClient ==
    /\ last = NoOp
    /\ inodes = Sshfs_new(virtual_root).ins
    /\ file_handles = Sshfs_new(virtual_root).fhs
    /\ call = Idle
    /\ hostfs = HostInit
    /\ sess = <<>>
    /\ auth = AuthInit
    /\ audit_db = AuditDbInit

\* the adapter takes outcome o of a callback
Callback(op, arg, o) ==
    /\ o.ins.max_inode <= MaxInode
    /\ o.fhs.next_fh <= MaxFh
    /\ Len(o.fs.nodes) <= Len(HostInit.nodes) + MaxNewNodes
    /\ inodes' = o.ins
    /\ file_handles' = o.fhs
    /\ hostfs' = o.fs
    /\ call' = o.call
    /\ last' = [op |-> op, arg |-> arg, replies |-> o.replies, calls |-> o.calls,
                panicked |-> o.panicked]
    /\ UNCHANGED <<sess, auth, audit_db>>

CbLookup ==
    /\ call.pc = "idle"
    /\ \E a \in LookupArgs :
        \E o \in cb_lookup(inodes, file_handles, hostfs, a[1], a[2]) :
            Callback("lookup", [parent |-> a[1], name |-> a[2]], o)

CbGetattr ==
    /\ call.pc = "idle"
    /\ \E ino \in GetattrInos :
        \E o \in cb_getattr(inodes, file_handles, hostfs, ino) :
            Callback("getattr", [ino |-> ino], o)

CbReaddir ==
    /\ call.pc = "idle"
    /\ \E a \in ReaddirArgs :
        \E o \in cb_readdir(inodes, file_handles, hostfs, a[1], a[2], MaxEntries) :
            Callback("readdir", [ino |-> a[1], offset |-> a[2], room |-> MaxEntries], o)

CbOpen ==
    /\ call.pc = "idle"
    /\ \E a \in ClientOpens :
        \E o \in cb_open(inodes, file_handles, hostfs, a[1], a[2]) :
            Callback("open", [ino |-> a[1], flags |-> a[2]], o)

CbRelease ==
    /\ call.pc = "idle"
    /\ \E fh \in ClientFhs :
        \E o \in cb_release(inodes, file_handles, hostfs, fh) :
            Callback("release", [fh |-> fh], o)

\* a read callback with its arguments among args
CbReadOf(args) ==
    /\ call.pc = "idle"
    /\ \E a \in args :
        \E o \in cb_read(inodes, file_handles, hostfs, a[1], a[2], a[3]) :
            Callback("read", [fh |-> a[1], offset |-> a[2], size |-> a[3]], o)

CbRead == CbReadOf(ReadArgs)

\* a write callback with its arguments among args
CbWriteOf(args) ==
    /\ call.pc = "idle"
    /\ \E a \in args :
        /\ a[2] + Len(a[3]) <= MaxFileLen
        /\ \E o \in cb_write(inodes, file_handles, hostfs, a[1], a[2], a[3]) :
            Callback("write", [fh |-> a[1], offset |-> a[2], data |-> a[3]], o)

CbWrite == CbWriteOf(WriteArgs)

\* the write callback goes once round its loop
CbWriteLoop ==
    /\ call.pc = "write"
    /\ \E o \in cb_write_loop(inodes, file_handles, hostfs, call, last.calls) :
            Callback("write", last.arg, o)

CbMknod ==
    /\ call.pc = "idle"
    /\ \E a \in MknodArgs :
        \E o \in cb_mknod(inodes, file_handles, hostfs, a[1], a[2], a[3], ClientUmask) :
            Callback("mknod", [parent |-> a[1], name |-> a[2], mode |-> a[3],
                               umask |-> ClientUmask], o)

CbUnlink ==
    /\ call.pc = "idle"
    /\ \E a \in UnlinkArgs :
        \E o \in cb_unlink(inodes, file_handles, hostfs, a[1], a[2]) :
            Callback("unlink", [parent |-> a[1], name |-> a[2]], o)

CbMkdir ==
    /\ call.pc = "idle"
    /\ \E a \in MkdirArgs :
        \E o \in cb_mkdir(inodes, file_handles, hostfs, a[1], a[2], DirMode, ClientUmask) :
            Callback("mkdir", [parent |-> a[1], name |-> a[2], mode |-> DirMode,
                               umask |-> ClientUmask], o)

CbRmdir ==
    /\ call.pc = "idle"
    /\ \E a \in RmdirArgs :
        \E o \in cb_rmdir(inodes, file_handles, hostfs, a[1], a[2]) :
            Callback("rmdir", [parent |-> a[1], name |-> a[2]], o)

NextClient ==
    \/ CbLookup
    \/ CbGetattr
    \/ CbReaddir
    \/ CbOpen
    \/ CbRelease
    \/ CbRead
    \/ CbWrite
    \/ CbWriteLoop
    \/ CbMknod
    \/ CbUnlink
    \/ CbMkdir
    \/ CbRmdir

SpecClient == InitClient /\ [][NextClient]_vars

\* ------------------------------------------------------------------------
\* Specification of client file transfer: the callbacks that reach, open,
\* read, write and release a remote file
\* ------------------------------------------------------------------------
TransferFhs == 0..(MaxFh - 1)
TransferReads == TransferFhs \X (0..MaxFileLen) \X (0..MaxFileLen)
TransferWrites == {<<0, 0, <<7>> >>, <<0, 1, <<7>> >>, <<1, 0, <<7, 8>> >>, <<1, 0, <<>> >>}

NextTransfer ==
    \/ CbLookup
    \/ CbOpen
    \/ CbRelease
    \/ CbReadOf(TransferReads)
    \/ CbWriteOf(TransferWrites)
    \/ CbWriteLoop

SpecTransfer == InitClient /\ [][NextTransfer]_vars

\* ------------------------------------------------------------------------
\* Specification of client names: the callbacks that bind and retire inodes
\* ------------------------------------------------------------------------
NextNames ==
    \/ CbLookup
    \/ CbGetattr
    \/ CbReaddir
    \/ CbMknod
    \/ CbUnlink
    \/ CbMkdir
    \/ CbRmdir

SpecNames == InitClient /\ [][NextNames]_vars

\* ------------------------------------------------------------------------
\* Specification of client directory streams: the kernel reads a directory
\* page by page, calling readdir with offset 0 and then with the offset of
\* the last entry its buffer took, until a page comes back empty.  The
\* directory does not change while a stream is read: the remote presents
\* the listing of the first page again for every later page.  Between
\* streams the directory changes.
\* ------------------------------------------------------------------------
PageInos == {1, 2}
PageRooms == 1..MaxEntries

\* no directory stream is being read
StreamIdle == IF last.op = "readdir_pages" THEN last.done ELSE TRUE

\* a page of the stream has been replied by outcome o of the callback
Page(ino, room, listing, before, o) ==
    /\ o.ins.max_inode <= MaxInode
    /\ inodes' = o.ins
    /\ file_handles' = o.fhs
    /\ hostfs' = o.fs
    /\ call' = o.call
    /\ last' = [op |-> "readdir_pages", ino |-> ino, room |-> room, listing |-> listing,
                delivered |-> IF o.replies[1].kind = "dir"
                              THEN before \o o.replies[1].entries ELSE before,
                failed |-> o.replies[1].kind # "dir",
                done |-> o.replies[1].kind # "dir" \/ o.replies[1].entries = <<>>]
    /\ UNCHANGED <<sess, auth, audit_db>>

\* the first page of a stream
ReaddirFirst ==
    /\ call.pc = "idle" /\ StreamIdle
    /\ \E ino \in PageInos, room \in PageRooms :
        /\ get_path(inodes, ino).some
        /\ \E r \in remote_readdir(hostfs, get_path(inodes, ino).val) :
            \E o \in cb_readdir_with(inodes, file_handles, hostfs, 0, room, r,
                                     <<[fn |-> "readdir", path |-> get_path(inodes, ino).val]>>) :
                Page(ino, room, IF r.ret.ok THEN r.ret.val ELSE <<>>, <<>>, o)

\* the next page of the stream, from the offset of the last entry taken
ReaddirNext ==
    /\ call.pc = "idle" /\ ~StreamIdle
    /\ get_path(inodes, last.ino).some
    /\ \E r \in remote_readdir(hostfs, get_path(inodes, last.ino).val) :
        /\ r.ret.ok => r.ret.val = last.listing
        /\ \E o \in cb_readdir_with(inodes, file_handles, hostfs,
                                    last.delivered[Len(last.delivered)].offset, last.room, r,
                                    <<[fn |-> "readdir", path |-> get_path(inodes, last.ino).val]>>) :
                Page(last.ino, last.room, last.listing, last.delivered, o)

NextPaging ==
    \/ ReaddirFirst
    \/ ReaddirNext
    \/ (StreamIdle /\ CbLookup)
    \/ (StreamIdle /\ CbUnlink)
    \/ (StreamIdle /\ CbMkdir)

SpecPaging == InitClient /\ [][NextPaging]_vars

\* ------------------------------------------------------------------------
\* Specification of one connection: password authentication by its
\* SshSession, then SFTP sessions on its channels.  The SSH transport hands
\* channel requests to the handler only once the connection is
\* authenticated; authentication requests are not restricted.
\* ------------------------------------------------------------------------
ConnChannels == {1, 2}
ConnPaths == {S_a}
ConnOpens == {<<S_a, {"READ"}>>}

InitConn ==
    /\ last = NoOp
    /\ inodes = InodesDefault
    /\ file_handles = FHandlersDefault
    /\ call = Idle
    /\ hostfs = HostInit
    /\ sess = <<>>
    /\ auth = AuthInit
    /\ audit_db = AuditDbInit

\* SshSession::subsystem_request("sftp") on a channel that has no subsystem
\* yet: the session is built from the username the auther holds
StartSftp(ch) ==
    /\ auth.authed
    /\ ch = Len(sess) + 1
    /\ sess' = Append(sess, new_with_username(auth.username))
    /\ last' = [sid |-> ch, op |-> "subsystem_request"]
    /\ UNCHANGED <<inodes, file_handles, call, hostfs, auth, audit_db>>

NextConn ==
    \/ Register
    \/ AuthPassword
    \/ \E ch \in ConnChannels : StartSftp(ch)
    \/ \E s \in DOMAIN sess, id \in ReqIds, p \in ConnPaths : ReqLstat(s, id, p)
    \/ \E s \in DOMAIN sess, id \in Ids, a \in ConnOpens : ReqOpen(s, id, a[1], a[2])
    \/ \E s \in DOMAIN sess, id \in ReqIds, h \in {HandleStr(1)} : ReqClose(s, id, h)

SpecConn == InitConn /\ [][NextConn]_vars

\* ------------------------------------------------------------------------

\* Specification of two concurrent sessions.  Each session task serves its
\* requests one after the other and owns its SftpSession; the requests of
\* the two tasks interleave in any order over the one host filesystem.
\* ------------------------------------------------------------------------
PairIds == {1, 2}
PairVersions == {3}
PairOpens == {<<S_a, {"READ", "WRITE"}>>}

InitPair ==
    /\ last = NoOp
    /\ inodes = InodesDefault
    /\ file_handles = FHandlersDefault
    /\ call = Idle
    /\ hostfs = HostInit
    /\ sess = [s \in PairIds |-> new_with_username(<<"a", "d", "m", "i", "n">>)]
    /\ auth = AuthInit
    /\ audit_db = AuditDbInit

NextPair ==
    \E s \in PairIds :
        \/ \E v \in PairVersions : ReqInit(s, v)
        \/ \E id \in Ids, a \in PairOpens : ReqOpen(s, id, a[1], a[2])
        \/ \E id \in Ids, p \in ListedPaths : ReqOpendir(s, id, p)
        \/ \E id \in ReqIds, h \in {HandleStr(1)} : ReqReaddir(s, id, h)
        \/ \E id \in ReqIds, h \in {HandleStr(1)} : ReqClose(s, id, h)

SpecPair == InitPair /\ [][NextPair]_vars

\* ------------------------------------------------------------------------

\* Specification of the client write loop, step by step.  The callback runs
\* on the thread of the mount session, which keeps running, and every call
\* of the remote write returns: both steps of the loop are weakly fair.
\* What the remote answers is not constrained.
\* ------------------------------------------------------------------------
LoopWrites == {<<0, 0, <<7>> >>, <<0, 0, <<7, 8>> >>, <<0, 1, <<7>> >>, <<1, 0, <<7, 8>> >>}

\* the write callback calls file.write(buf)
CbWriteCall ==
    /\ call.pc = "write"
    /\ \E o \in cb_write_call(inodes, file_handles, hostfs, call, last.calls) :
            Callback("write", last.arg, o)

\* the write callback slices buf and tests the loop condition
CbWriteSlice ==
    /\ call.pc = "wrote"
    /\ \E o \in cb_write_slice(inodes, file_handles, hostfs, call, last.calls) :
            Callback("write", last.arg, o)

NextWriteLoop ==
    \/ CbLookup
    \/ CbOpen
    \/ CbRelease
    \/ CbWriteOf(LoopWrites)
    \/ CbWriteCall
    \/ CbWriteSlice

SpecWriteLoop ==
    /\ InitClient
    /\ [][NextWriteLoop]_vars
    /\ WF_vars(CbWriteCall)
    /\ WF_vars(CbWriteSlice)

\* ------------------------------------------------------------------------
\* Claims
\* ------------------------------------------------------------------------
\* C1: after any sequence of add, del_inode and _rename, no two distinct
\* inodes are bound to the same path.
C1_NoSharedPath ==
    \A i \in DOMAIN inodes.list, j \in DOMAIN inodes.list :
        i # j => ~PathEq(inodes.list[i], inodes.list[j])

RECURSIVE ClimbsFrom(_, _)
ClimbsFrom(cs, depth) ==
    IF cs = <<>> THEN FALSE
    ELSE IF Head(cs) = DotDot THEN depth = 0 \/ ClimbsFrom(Tail(cs), depth - 1)
    ELSE ClimbsFrom(Tail(cs), depth + 1)

\* the ".." components of the virtual path v climb above "/"
Climbs(v) == has_root(v) /\ ClimbsFrom(Tail(Components(v)), 0)

\* C2: to_real_path fails for every virtual path whose ".." components
\* climb above the root.
C2_ClimbRejected ==
    (last.op = "to_real_path" /\ Climbs(last.arg)) => ~last.ret.ok

\* the session the last request was served by, after it
LastSess == sess[last.sid]

IsRequest(ops) == last.op \in ops

\* the reply is the status code c
IsError(reply, c) == reply.tag = "Error" /\ reply.code = c

\* the real path of a client path as the session resolves it
RealOf(path) == to_real_path(join(<<Sep>>, path)).val

\* the canonical path of a directory handle's virtual path
RealOfCanon(vpath) == Resolve(hostfs, to_real_path(vpath).val).val

\* a real path names something outside the root directory
OutsideRoot(fs, real) ==
    ~Resolve(fs, real).ok \/ ~starts_with(Resolve(fs, real).val, virtual_root)

\* C3: an open whose filename traverses out of the virtual root returns a
\* protocol error reply, registers nothing in either handle table and emits
\* no audit record whose target lies outside the root.
C3_TraversalRejected ==
    [][(last'.op = "open" /\ Climbs(join(<<Sep>>, last'.arg.path)))
       => /\ last'.reply.tag = "Error"
          /\ sess'[last'.sid].handles = sess[last'.sid].handles
          /\ sess'[last'.sid].file_handles = sess[last'.sid].file_handles
          /\ \A k \in DOMAIN last'.audit : ~OutsideRoot(hostfs, last'.audit[k].target)]_vars

\* C4: after close(handle), every later read, write, fstat or readdir on
\* that handle fails with INVALID_HANDLE, until the token is issued again.
C4_ClosedHandleInvalid ==
    (/\ IsRequest({"read", "write", "fstat", "readdir"})
     /\ last.arg.handle \in DOMAIN LastSess.hist
     /\ LastSess.hist[last.arg.handle].closed)
    => IsError(last.reply, "InvalidHandle")

\* C5: with two directory handles open in one session, each handle's first
\* readdir returns its entries and its second readdir returns Eof, whatever
\* was requested on the other handle.
C5_CursorPerHandle ==
    (/\ IsRequest({"readdir"})
     /\ \A h \in DirTokens :
           /\ h \in DOMAIN LastSess.handles
           /\ ~LastSess.hist[h].closed
           /\ IsDirAt(hostfs, RealOf(LastSess.handles[h])))
    => LET n == LastSess.hist[last.arg.handle].reads IN
       /\ n = 1 => last.reply.tag = "Name"
       /\ n = 2 => IsError(last.reply, "Eof")

\* the action the audit taxonomy gives an operation
TaxonomyOf(op) ==
    CASE op = "open" -> "Open" [] op = "write" -> "Write" [] op = "remove" -> "Remove"
      [] op = "opendir" -> "OpenDir" [] op = "mkdir" -> "MakeDir"
      [] op = "rmdir" -> "RemoveDir" [] op = "rename" -> "Rename"
      [] op = "close" -> "Close" [] op = "read" -> "Read"
      [] op = "readdir" -> "ReadDir" [] op = "realpath" -> "RealPath"

Succeeded(reply) == reply.tag \notin {"Error", "Panic"}

\* C6: every successful open, write, remove, opendir, mkdir, rmdir and
\* rename emits exactly one audit record, with the operation's taxonomy
\* action and the real, root-prefixed path of the object as target (for
\* rename the old path).
C6_OneAuditRecord ==
    (IsRequest({"open", "write", "remove", "opendir", "mkdir", "rmdir", "rename"})
     /\ Succeeded(last.reply))
    => /\ Len(last.audit) = 1
       /\ last.audit[1].action = TaxonomyOf(last.op)
       /\ starts_with(last.audit[1].target, virtual_root)
       /\ last.op # "write" => last.audit[1].target = RealOf(last.arg.path)

\* C7: a client callback that has returned has invoked its reply exactly
\* once; one still in its loop has not replied yet; none replies twice and
\* none leaves the adapter without a reply.
C7_ReplyExactlyOnce ==
    last.op \in {"lookup", "getattr", "readdir", "open", "release", "read", "write",
                 "mknod", "unlink", "mkdir", "rmdir"}
    => IF call.pc = "write" THEN Len(last.replies) = 0 ELSE Len(last.replies) = 1

\* C8: the first init of a session records the version; every later init
\* returns CONNECTION_LOST and leaves version, cwd offset, handle tables and
\* readdir cursor as they were; nothing but init sets the version.
C8_InitOnce ==
    [][LET s == last'.sid IN
       /\ last'.op = "init" =>
             IF sess[s].version.some
             THEN /\ IsError(last'.reply, "ConnectionLost")
                  /\ sess'[s].version = sess[s].version
                  /\ sess'[s].cwd_offset = sess[s].cwd_offset
                  /\ sess'[s].handles = sess[s].handles
                  /\ sess'[s].file_handles = sess[s].file_handles
                  /\ sess'[s].root_dir_read_done = sess[s].root_dir_read_done
             ELSE /\ last'.reply.tag = "Version"
                  /\ sess'[s].version = Some(last'.arg.version)
       /\ last'.op \notin {"init", "subsystem_request"} =>
             sess'[s].version = sess[s].version]_vars

\* C8 witness: a second init, with another version, was refused while a
\* handle was open
C8_Witness ==
    /\ IsRequest({"init"})
    /\ IsError(last.reply, "ConnectionLost")
    /\ LastSess.version.val # last.arg.version
    /\ DOMAIN LastSess.handles # {}

\* the file names of a Name reply are the children of the directory, each
\* exactly once
ListsChildren(fs, files, canon) ==
    /\ Len(files) = Cardinality(ChildrenOf(fs, canon))
    /\ {files[k].filename : k \in DOMAIN files} = {FileName(c) : c \in ChildrenOf(fs, canon)}

C10_RoundTrip ==
    \A P \in InodePaths : \A i \in get_inode(inodes, P) :
        i.some => /\ get_path(inodes, i.val).some
                  /\ PathEq(get_path(inodes, i.val).val, P)

\* C10 witness: a path is bound, after a retire and a rebind have acted
C10_Witness ==
    /\ last.op = "_rename" /\ last.ret
    /\ inodes.max_inode > Cardinality(DOMAIN inodes.list)
    /\ \E P \in InodePaths : None \notin get_inode(inodes, P)

\* C11: inode numbers are never reused: max_inode never decreases, every
\* bound inode is at most max_inode, and every newly bound inode is
\* max_inode + 1, above every inode allocated before it.
C11_NeverReused ==
    /\ [](\A i \in DOMAIN inodes.list : i <= inodes.max_inode)
    /\ [][/\ inodes'.max_inode >= inodes.max_inode
          /\ \A i \in DOMAIN inodes'.list \ DOMAIN inodes.list :
                /\ i = inodes.max_inode + 1
                /\ i = inodes'.max_inode
                /\ last'.op = "add" /\ last'.ret = i]_vars

\* C11 witness: an intern came after retires and was given a number above
\* every number handed out before
C11_Witness ==
    /\ last.op = "add"
    /\ last.ret = inodes.max_inode
    /\ last.ret = MaxInode
    /\ DOMAIN inodes.list = {last.ret}

\* the client handle fh was opened and has been released
Released(fh) == fh < file_handles.next_fh /\ fh \notin DOMAIN file_handles.list

\* C12: a read or write callback on a released fh replies EBADF.
C12_ReleasedIsEBADF ==
    (last.op \in {"read", "write"} /\ call.pc = "idle" /\ Released(last.arg.fh))
    => last.replies = <<ReplyError(EBADF)>>

\* the SFTP status codes the translation table has an entry for
MappedCodes == 2..21

\* C13: an SFTP status code without an entry in the table translates to
\* EIO, and no error code translates to 0.
C13_UnmappedIsEIO ==
    last.op = "Error_from"
    => /\ (last.arg.kind = "SFTP" /\ last.arg.code \notin MappedCodes) => last.ret = EIO
       /\ last.ret # 0

\* C14: a request that fails replies with an error, leaves the version,
\* both handle tables and the readdir cursor of its session unchanged, and
\* leaves the session serving requests.
C14_FailureIsolated ==
    [][(last'.op # "subsystem_request" /\ ~Succeeded(last'.reply))
       => LET s == last'.sid IN
          /\ last'.reply.tag = "Error"
          /\ sess'[s].alive
          /\ sess'[s].version = sess[s].version
          /\ sess'[s].handles = sess[s].handles
          /\ sess'[s].file_handles = sess[s].file_handles
          /\ sess'[s].root_dir_read_done = sess[s].root_dir_read_done]_vars

\* the host refuses the open of the last request (issued in session state ss)
HostOpenFails(ss, fs, arg) ==
    LET path == to_real_path(join(ss.cwd_offset, arg.path)) IN
    /\ path.ok
    /\ ~host_open(fs, path.val, OpenOptionsOf(arg.pflags)).ret.ok
    /\ host_open(fs, path.val, OpenOptionsOf(arg.pflags)).ret.err \in {"ENOENT", "EACCES"}

\* C15: an open whose host open fails replies with the status NO_SUCH_FILE
\* or PERMISSION_DENIED and registers no handle in either table.
C15_OpenFailureIsStatus ==
    [][(last'.op = "open" /\ HostOpenFails(sess[last'.sid], hostfs, last'.arg))
       => /\ last'.reply.tag = "Error"
          /\ last'.reply.code \in {"NoSuchFile", "PermissionDenied"}
          /\ sess'[last'.sid].handles = sess[last'.sid].handles
          /\ sess'[last'.sid].file_handles = sess[last'.sid].file_handles]_vars

\* C16: authenticate(u, p) accepts exactly when u is registered and p is
\* the password stored for u by the last successful register or password
\* change; right after a successful register(u, pw), authenticate(u, p)
\* accepts pw and rejects every other p.
C16_AcceptsIffStored ==
    /\ [](last.op = "authenticate"
          => (last.ret = Accept
              <=> /\ last.username \in DOMAIN auth.Users
                  /\ auth.plain[last.username] = last.password))
    /\ [][(/\ last.op = "register" /\ last.ret.ok
           /\ last'.op = "authenticate" /\ last'.username = last.username)
          => (last'.ret = Accept <=> last'.password = last.password)]_vars

\* C16 witness: a user registered after start-up has logged in with the
\* password stored for it
C16_Witness ==
    /\ last.op = "authenticate" /\ last.ret = Accept
    /\ last.username = "u" /\ auth.authed /\ auth.username = "u"
    /\ auth.plain["u"] = last.password

\* C17: to_real_path returns a path only for a virtual path that begins
\* with "/", and every path it returns has the root as its prefix.
C17_RootedAndPrefixed ==
    (last.op = "to_real_path" /\ last.ret.ok)
    => /\ has_root(last.arg)
       /\ starts_with(last.ret.val, virtual_root)
       /\ IsPrefix(virtual_root, last.ret.val)

\* C17 witness: a virtual path below "/" was mapped to a path below the root
C17_Witness ==
    /\ last.op = "to_real_path" /\ last.ret.ok
    /\ ~PathEq(last.ret.val, virtual_root)

\* C18: to_virtual_path of a real path inside the root succeeds and
\* to_real_path maps its result back to the same path; to_virtual_path
\* maps the result of every accepted to_real_path back to the same virtual
\* path; to_virtual_path fails for a real path that does not start with the
\* root.  Paths are compared as Path values.
C18_RoundTrip ==
    /\ last.op = "to_virtual_path"
       => IF starts_with(last.arg, virtual_root)
          THEN /\ last.ret.ok
               /\ last.back.ok
               /\ PathEq(last.back.val, last.arg)
          ELSE ~last.ret.ok
    /\ (last.op = "to_real_path" /\ last.ret.ok)
       => /\ last.back.ok
          /\ PathEq(last.back.val, last.arg)

\* C18 witness: a real path two levels below the root went to its virtual
\* path and back
C18_Witness ==
    /\ last.op = "to_virtual_path" /\ last.back.ok
    /\ Len(Components(last.ret.val)) = 3

\* C19: a read on a live handle that replies data replies at most size
\* bytes, and they are the bytes of the remote file from offset on; they
\* are the bytes [offset, offset + size) when that range lies within the
\* file; fewer than size bytes are replied only when the file ends there.
C19_ReadSlice ==
    (/\ last.op = "read"
     /\ last.arg.fh \in DOMAIN file_handles.list
     /\ last.replies[1].kind = "data")
    => LET d == hostfs.nodes[file_handles.list[last.arg.fh].node].data
           data == last.replies[1].data
           off == last.arg.offset
           n == last.arg.size
       IN /\ Len(data) <= n
          /\ data = SubSeq(d, off + 1, off + Len(data))
          /\ off + n <= Len(d) => data = SubSeq(d, off + 1, off + n)
          /\ Len(data) < n => off + Len(data) >= Len(d)

\* C19 witness: a read across the end of the file replied the one byte
\* before the end
C19_Witness ==
    /\ last.op = "read"
    /\ last.replies[1].kind = "data"
    /\ Len(last.replies[1].data) = 1
    /\ last.arg.size = 2

\* the bytes a read reply hands to the reader: the data, or none at Eof
BytesOf(reply) ==
    IF reply.tag = "Data" THEN Some(reply.data)
    ELSE IF IsError(reply, "Eof") THEN Some(<<>>)
    ELSE None

C21_HandleNeverReused ==
    /\ [](\A fh \in DOMAIN file_handles.list : fh < file_handles.next_fh)
    /\ [][/\ file_handles'.next_fh >= file_handles.next_fh
          /\ (last'.op = "open" /\ last'.replies # <<>>
              /\ last'.replies[1].kind = "opened")
             => /\ last'.replies[1].fh = file_handles.next_fh
                /\ file_handles'.next_fh = file_handles.next_fh + 1
                /\ last'.replies[1].fh \in DOMAIN file_handles'.list
          /\ \A fh \in DOMAIN file_handles'.list \ DOMAIN file_handles.list :
                /\ fh = file_handles.next_fh
                /\ last'.op = "open"]_vars

\* C21 witness: an open after a release was given a fresh handle, while the
\* released handle 0 stays unused
C21_Witness ==
    /\ last.op = "open"
    /\ last.replies = <<ReplyOpened(1, last.arg.flags)>>
    /\ DOMAIN file_handles.list = {1}

\* C22: every successful request whose action is in the audit taxonomy
\* (open, close, read, write, remove, opendir, readdir, mkdir, rmdir,
\* realpath, rename) emits exactly one audit record, carrying that action;
\* a successful close emits one Close record.
C22_TaxonomyAudited ==
    (IsRequest({"open", "close", "read", "write", "remove", "opendir", "readdir",
                "mkdir", "rmdir", "realpath", "rename"})
     /\ Succeeded(last.reply))
    => /\ Len(last.audit) = 1
       /\ last.audit[1].action = TaxonomyOf(last.op)

\* the requests a session serves
ServerOps ==
    {"init", "close", "open", "lstat", "fstat", "setstat", "read", "write", "remove",
     "opendir", "readdir", "mkdir", "rmdir", "realpath", "stat", "rename"}

\* C23: a request answered with an error status (readdir at Eof, read at or
\* past the end of the file, realpath or stat of a missing path, setstat,
\* fstat or write on an unknown handle) emits no audit record.
C23_FailureUnaudited ==
    (IsRequest(ServerOps) /\ last.reply.tag = "Error") => last.audit = <<>>

\* C23 witness: a read at the end of an open file was answered with Eof and
\* left no record
C23_Witness ==
    /\ last.op = "read" /\ last.arg.offset = 2
    /\ IsError(last.reply, "Eof")
    /\ last.audit = <<>>

\* the inodes bound to path in table ins
BoundTo(ins, path) == {i \in DOMAIN ins.list : PathEq(ins.list[i], path)}

\* the reply gave the inode ino to path, which the table before the
\* callback had already bound: the table is untouched and ino is that inode
SameInode(path, ino) ==
    BoundTo(inodes, path) # {} => (BoundTo(inodes, path) = {ino} /\ inodes' = inodes)

\* C24: intern is idempotent: no path is bound to two inodes, a binding
\* keeps its path while it lasts, and a lookup, mknod, mkdir or getattr
\* that interns a path already bound reports the inode it is bound to and
\* leaves the table and max_inode unchanged, so that repeated lookups of an
\* un-retired path report the same inode.
C24_InternIdempotent ==
    /\ [](\A i, j \in DOMAIN inodes.list :
             PathEq(inodes.list[i], inodes.list[j]) => i = j)
    /\ [][/\ \A i \in DOMAIN inodes.list \cap DOMAIN inodes'.list :
                inodes'.list[i] = inodes.list[i]
          /\ (last'.op \in {"lookup", "mknod", "mkdir"} /\ last'.replies # <<>>
              /\ last'.replies[1].kind = "entry")
             => SameInode(join(inodes.list[last'.arg.parent], last'.arg.name),
                          last'.replies[1].attr.ino)
          /\ (last'.op = "getattr" /\ last'.replies # <<>>
              /\ last'.replies[1].kind = "attr")
             => SameInode(inodes.list[last'.arg.ino], last'.replies[1].attr.ino)]_vars

\* C24 witness: a getattr of inode 2 interned its path again and reported
\* inode 2, next to a later binding
C24_Witness ==
    /\ last.op = "getattr" /\ last.arg.ino = 2
    /\ Len(last.replies) = 1 /\ last.replies[1].kind = "attr"
    /\ last.replies[1].attr.ino = 2
    /\ DOMAIN inodes.list = {1, 2, 3}

\* the errno the table of the specification gives for the SFTP statuses the
\* claim lists
StatusTable ==
    (2 :> ENOENT) @@ (10 :> ENOENT) @@ (3 :> EACCES) @@ (12 :> EACCES) @@ (4 :> EIO)
    @@ (7 :> ENETDOWN) @@ (9 :> EBADF) @@ (11 :> EEXIST) @@ (14 :> ENOSPC)
    @@ (15 :> EDQUOT) @@ (17 :> ENOLCK) @@ (18 :> ENOTEMPTY) @@ (19 :> ENOTDIR)
    @@ (20 :> ENAMETOOLONG) @@ (21 :> ELOOP)

\* C25: the error translation follows the table: SFTP statuses 2 and 10 give
\* ENOENT, 3 and 12 EACCES, 4 EIO, 7 ENETDOWN, 9 EBADF, 11 EEXIST, 14
\* ENOSPC, 15 EDQUOT, 17 ENOLCK, 18 ENOTEMPTY, 19 ENOTDIR, 20 ENAMETOOLONG,
\* 21 ELOOP, and every session (transport) failure gives ENXIO.
C25_TableFollowed ==
    last.op = "Error_from"
    => /\ (last.arg.kind = "SFTP" /\ last.arg.code \in DOMAIN StatusTable)
          => last.ret = StatusTable[last.arg.code]
       /\ last.arg.kind = "Session" => last.ret = ENXIO

\* C25 witness: INVALID_HANDLE (9) was translated, to EBADF
C25_Witness ==
    /\ last.op = "Error_from"
    /\ last.arg = SFTP(9)
    /\ last.ret = EBADF

\* the event carries the three fields of an audit record
HasThree(event) == {"username", "action", "target"} \subseteq DOMAIN event

\* C26: every event that carries username, action and target and reaches
\* the logger adds one row to AuditLogs holding exactly those three values,
\* and an event missing one of the fields adds no row.
C26_EveryEventPersisted ==
    [][last'.op = "on_event"
       => IF HasThree(last'.event)
          THEN /\ Len(audit_db'.AuditLogs) = Len(audit_db.AuditLogs) + 1
               /\ SubSeq(audit_db'.AuditLogs, 1, Len(audit_db.AuditLogs)) = audit_db.AuditLogs
               /\ LET row == audit_db'.AuditLogs[Len(audit_db'.AuditLogs)] IN
                  /\ row.username = last'.event["username"].val
                  /\ row.action = last'.event["action"].val
                  /\ row.target = last'.event["target"].val
          ELSE audit_db' = audit_db]_vars

\* C27: update_user_password(u, new, old) changes the stored credential only
\* when old verifies against the stored hash: then it succeeds, and
\* afterwards authenticate(u, new) accepts and, for new different from old,
\* authenticate(u, old) rejects; when old does not verify (or u is unknown)
\* it returns an error and the Users table is unchanged.
C27_UpdateNeedsOld ==
    [][last'.op = "update_user_password"
       => IF /\ last'.username \in DOMAIN auth.Users
             /\ verify(last'.old_password, auth.Users[last'.username].password)
          THEN /\ last'.ret.ok
               /\ authenticate(auth', last'.username, last'.password).ret.ok
               /\ last'.password # last'.old_password
                  => ~authenticate(auth', last'.username, last'.old_password).ret.ok
          ELSE /\ ~last'.ret.ok
               /\ auth'.Users = auth.Users]_vars

\* C27 witness: a password was replaced by a different one
C27_Witness ==
    /\ last.op = "update_user_password" /\ last.ret.ok
    /\ last.password # last.old_password
    /\ verify(last.password, auth.Users[last.username].password)
    /\ ~verify(last.old_password, auth.Users[last.username].password)

\* C28: on the client inode 1 is bound to the configured root path in every
\* reachable state, and the root path is bound to no other inode: no lookup,
\* getattr, readdir, mknod, mkdir, unlink or rmdir retires or rebinds it.
C28_RootIsInodeOne ==
    /\ get_path(inodes, 1) = Some(virtual_root)
    /\ BoundTo(inodes, virtual_root) = {1}

\* C28 witness: an unlink or rmdir has retired an inode and later bindings
\* exist, with the root still at inode 1
C28_Witness ==
    /\ last.op \in {"unlink", "rmdir"}
    /\ last.replies = <<ReplyEmptyOk>>
    /\ 2 \notin DOMAIN inodes.list
    /\ inodes.max_inode >= 2
    /\ get_path(inodes, 1) = Some(virtual_root)

\* C29: once a readdir on an open directory handle has returned Eof, the
\* next readdir on that handle, with no request in between, returns Eof
\* again: the listing is not delivered a second time.
C29_EofIsFinal ==
    [][(/\ last.op = "readdir" /\ IsError(last.reply, "Eof")
        /\ last'.op = "readdir" /\ last'.sid = last.sid
        /\ last'.arg.handle = last.arg.handle
        /\ last.arg.handle \in DOMAIN sess[last.sid].handles)
       => IsError(last'.reply, "Eof")]_vars

\* C30: the client write callback terminates: whatever the remote write
\* calls answer, a write callback that has started eventually replies, with
\* the length of the data or with an error code.
C30_WriteTerminates ==
    (last.op = "write" /\ call.pc # "idle")
    ~> (/\ last.op = "write" /\ call.pc = "idle"
        /\ Len(last.replies) = 1
        /\ last.replies[1].kind \in {"written", "error"})

\* what a lossless stream over listing has delivered once it has taken n
\* entries: the first n of "..", "." and the children, in the order of the
\* listing, each with offset index + 1
Taken(listing, delivered) ==
    /\ Len(delivered) <= Len(listing) + 2
    /\ \A k \in DOMAIN delivered :
          /\ delivered[k].offset = k
          /\ delivered[k].name = EntryName(WithDots(listing)[k].path)
          /\ k <= 2 => delivered[k].ino = 1

\* C31: readdir pagination loses nothing: over a directory that stays as it
\* is, for every buffer capacity from one entry up, the pages of a stream
\* deliver "..", "." (both inode 1) and every child exactly once, in list
\* order, none skipped or repeated, each with offset index + 1; a stream
\* that ends without an error has delivered them all.
C31_PagesLossless ==
    last.op = "readdir_pages"
    => /\ Taken(last.listing, last.delivered)
       /\ (last.done /\ ~last.failed) => Len(last.delivered) = Len(last.listing) + 2

\* C31 witness: a stream with a one-entry buffer has ended after delivering
\* the two synthetic entries and two children
C31_Witness ==
    /\ last.op = "readdir_pages" /\ last.done /\ ~last.failed
    /\ last.room = 1
    /\ Len(last.delivered) = 4

\* C32: close releases the open file: in every state of a session every
\* handle of the file-handle table is a handle of the path-handle table, so
\* a closed handle has an entry in neither.
C32_CloseReleasesFile ==
    \A s \in DOMAIN sess : DOMAIN sess[s].file_handles \subseteq DOMAIN sess[s].handles

\* The handle is live and both of its entries are the ones an open stored:
\* an open File, and the real path that open resolved.
OpenedBy(ss, handle) ==
    /\ handle \in DOMAIN ss.handles
    /\ handle \in DOMAIN ss.file_handles
    /\ starts_with(ss.handles[handle], virtual_root)

\* C33: fstat on a live handle returned by open replies with the attributes
\* of the file that open opened; fstat on a handle that is not in the table
\* replies with an error status.
C33_FstatOfOpened ==
    IsRequest({"fstat"})
    => /\ OpenedBy(LastSess, last.arg.handle)
          => /\ last.reply.tag = "Attrs"
             /\ last.reply.attrs =
                   AttrsOf(metadata(hostfs, LastSess.handles[last.arg.handle]).val)
       /\ last.arg.handle \notin DOMAIN LastSess.handles
          => last.reply.tag = "Error"

\* the remote removal named by an unlink or rmdir callback went through: the
\* callback did not reply with an error
Removed(l) == l.replies = <<ReplyEmptyOk>> \/ l.panicked

\* C34: unlink and rmdir retire the inode of the removed path exactly when
\* the remote call succeeds: the inodes bound to that path leave the table, so
\* that path_of is undefined and getattr replies ENOENT for them, and every
\* other entry stays; when the remote call fails or the parent is unknown the
\* inode table is unchanged.
C34_RetireOnSuccess ==
    [][last'.op \in {"unlink", "rmdir"}
       => IF last'.arg.parent \in DOMAIN inodes.list /\ Removed(last')
          THEN LET gone == BoundTo(inodes, join(inodes.list[last'.arg.parent],
                                                last'.arg.name))
               IN /\ inodes'.list = [i \in DOMAIN inodes.list \ gone |-> inodes.list[i]]
                  /\ inodes'.max_inode = inodes.max_inode
                  /\ \A i \in gone :
                        /\ get_path(inodes', i) = None
                        /\ \A o \in cb_getattr(inodes', file_handles', hostfs', i) :
                              o.replies = <<ReplyError(ENOENT)>>
          ELSE inodes' = inodes]_vars

C34_Witness ==
    /\ last.op = "rmdir"
    /\ last.replies = <<ReplyEmptyOk>>
    /\ inodes.max_inode = 2
    /\ DOMAIN inodes.list = {1}

\* C35: read on a live file handle replies Eof whenever the offset is at or
\* past the file size, and otherwise replies with data of at most len bytes,
\* the bytes actually read at the offset.
C35_ReadEofOrData ==
    (/\ IsRequest({"read"})
     /\ last.arg.handle \in DOMAIN LastSess.handles
     /\ last.arg.handle \in DOMAIN LastSess.file_handles)
    => LET d == hostfs.nodes[LastSess.file_handles[last.arg.handle].node].data
           off == last.arg.offset
       IN IF off >= Len(d) THEN IsError(last.reply, "Eof")
          ELSE /\ last.reply.tag = "Data"
               /\ Len(last.reply.data) <= last.arg.len
               /\ last.reply.data = SubSeq(d, off + 1, off + Len(last.reply.data))

\* C36: mknod with a mode whose file-type bits are not S_IFREG replies EPERM
\* without a remote call and without changing the inode table or the handle
\* table; for a regular file the mode sent to the remote keeps the file-type
\* bits and exactly the permission bits outside the umask, and no mknod
\* installs an entry in the handle table.
C36_MknodRegularOnly ==
    /\ [](last.op = "mknod"
          => IF last.arg.mode.fmt # "S_IFREG"
             THEN last.replies = <<ReplyError(EPERM)>> /\ last.calls = <<>>
             ELSE \A k \in DOMAIN last.calls :
                     last.calls[k].fn = "open_mode"
                     => /\ last.calls[k].mode.fmt = "S_IFREG"
                        /\ last.calls[k].mode.perm =
                              {b \in last.arg.mode.perm : b \notin last.arg.umask})
    /\ [][last'.op = "mknod"
          => /\ file_handles' = file_handles
             /\ last'.arg.mode.fmt # "S_IFREG" => inodes' = inodes]_vars

C36_Witness ==
    /\ last.op = "mknod"
    /\ Len(last.replies) = 1 /\ last.replies[1].kind = "entry"
    /\ Len(last.calls) = 2 /\ last.calls[1].fn = "open_mode"
    /\ last.calls[1].mode = [fmt |-> "S_IFREG", perm |-> {"r"}]
    /\ file_handles.list = <<>>

\* C37: every successful open or opendir returns a handle token that is not
\* live in the session at that moment, and no request changes the path or
\* the open file recorded for a handle that stays live.
C37_FreshHandle ==
    [][\A s \in DOMAIN sess :
          /\ (last'.op \in {"open", "opendir"} /\ last'.sid = s /\ Succeeded(last'.reply))
             => /\ last'.reply.handle \notin DOMAIN sess[s].handles
                /\ last'.reply.handle \notin DOMAIN sess[s].file_handles
          /\ \A h \in DOMAIN sess[s].handles \cap DOMAIN sess'[s].handles :
                sess'[s].handles[h] = sess[s].handles[h]
          /\ \A h \in DOMAIN sess[s].file_handles \cap DOMAIN sess'[s].file_handles :
                sess'[s].file_handles[h] = sess[s].file_handles[h]]_vars

\* C38: every audit event a session emits, for any operation, carries an
\* action of the taxonomy that the AuditLogs action constraint accepts, so
\* the sink refuses none of them.
C38_EmittedInTaxonomy ==
    last.op # "none"
    => \A k \in DOMAIN last.audit :
          /\ last.audit[k].action \in AuditActions
          /\ log_action_to_audit_logs(AuditDbInit, <<>>, last.audit[k].username,
                                      last.audit[k].action, last.audit[k].target).ret.ok

\* C39: on one connection a failed authenticate leaves the bound username and
\* the authenticated flag unchanged and a successful one binds its username,
\* nothing else changes the binding, so the bound username is that of the
\* last successful authenticate; a new SFTP session is given the bound
\* username, keeps it, and every audit record it emits carries it.
C39_SessionUserIsAuthenticated ==
    [][/\ IF last'.op = "authenticate"
          THEN IF last'.ret = Accept
               THEN auth'.username = last'.username /\ auth'.authed
               ELSE auth'.username = auth.username /\ auth'.authed = auth.authed
          ELSE auth'.username = auth.username /\ auth'.authed = auth.authed
       /\ \A s \in DOMAIN sess' :
             IF s \in DOMAIN sess THEN sess'[s].user = sess[s].user
             ELSE sess'[s].user = auth.username /\ auth.authed
       /\ last'.op \in ServerOps
          => \A k \in DOMAIN last'.audit :
                last'.audit[k].username = sess[last'.sid].user]_vars

C39_Witness ==
    /\ Len(sess) = 2
    /\ sess[1].user = "admin" /\ sess[2].user = "u"
    /\ auth.username = "u"
    /\ last.op = "lstat" /\ last.sid = 1
    /\ Len(last.audit) = 1 /\ last.audit[1].username = "admin"

\* C40: sessions are isolated: a request served in one session leaves the
\* other session's handle tables, readdir cursor and version as they were,
\* and a handle token resolves only through the tables of the session the
\* request came in, even when both sessions hold a token of the same text: a
\* request succeeds on a token only if its own session holds it, and a
\* directory listing is that of the path its own session stored.
C40_SessionsIsolated ==
    [][last'.op \in ServerOps
       => LET s == last'.sid IN
          /\ \A t \in DOMAIN sess \ {s} : sess'[t] = sess[t]
          /\ (last'.op = "readdir" /\ Succeeded(last'.reply))
             => /\ last'.arg.handle \in DOMAIN sess[s].handles
                /\ ListsChildren(hostfs, last'.reply.files,
                                 RealOfCanon(sess[s].handles[last'.arg.handle]))
                /\ last'.audit[1].target = RealOfCanon(sess[s].handles[last'.arg.handle])]_vars

C40_Witness ==
    /\ HandleStr(1) \in DOMAIN sess[1].handles
    /\ HandleStr(1) \in DOMAIN sess[2].handles
    /\ sess[1].handles[HandleStr(1)] = S_root
    /\ sess[2].handles[HandleStr(1)] = S_slash_d
    /\ last.op = "readdir" /\ last.sid = 2 /\ last.reply.tag = "Name"

====
